---------------------------- MODULE Spec2Model ----------------------------
(***************************************************************************)
(* Model of the micro_http server (src/micro_http/src/server.rs): the      *)
(* HttpServer event loop, the ClientConnection state machine and the       *)
(* response serializer (response.rs, common/headers.rs).                   *)
(*                                                                         *)
(* HttpConnection (module `connection`, declared in lib.rs:116) has no     *)
(* source file in the repository tree; its five operations are modelled    *)
(* from the contract of spec.md section 4.D and are the definitions named  *)
(* HttpConnection_*.                                                       *)
(*                                                                         *)
(* Streams are the environment.  What a stream delivers to one read, how   *)
(* many bytes it accepts in one write and whether a system call fails is   *)
(* chosen when the call is made.  A byte sequence is a sequence of         *)
(* segments (status line with header block, body); a partial write stops   *)
(* at a segment boundary.                                                  *)
(***************************************************************************)
EXTENDS Integers, Sequences, FiniteSets, TLC

VARIABLES
    started,          \* start_server() has registered the listener
    connections,      \* HttpServer.connections : fd -> ClientConnection
    epoll,            \* interest list of HttpServer.epoll : fd -> "IN" | "OUT"
    pc,               \* "idle" between public calls, "dispatch" inside requests()
    events,           \* requests(): events of the batch still to be processed
    parsed_requests,  \* requests(): the local Vec<ServerRequest>
    result,           \* outcome of the last public call; an Err carries the
                      \* system call whose failure it reports, and while
                      \* requests() runs after an interrupted wait, "EINTR"
    hup,              \* stream fd has delivered EOF to a read
    rejected,         \* requests(): what the stream refused at capacity received
    owed,             \* per connection: requests returned minus respond() calls
    reaped,           \* requests(): the connections the sweep removed
    credit,           \* per connection: 100 Continue responses enqueued for
                      \* requests not yet returned by requests() or discarded
    faults,           \* number of system calls that have failed so far
    fifo,             \* per connection: segments enqueued and not yet on the wire
    wire_ok,          \* every write so far delivered the head of fifo
    held,             \* per id: "live" when the application keeps the id of a
                      \* request of the connection in the map, "stale" when
                      \* that connection has been removed, else "none"
    wire              \* the bytes of one stream, for the specifications that
                      \* follow a parser byte by byte

vars == <<started, connections, epoll, pc, events, parsed_requests, result,
          hup, rejected, owed, reaped, credit, faults, fifo, wire_ok, held, wire>>

---------------------------------------------------------------------------
(* Bounds of the model.                                                    *)

\* server.rs:22 sets MAX_CONNECTIONS to 10; the model scales it down.
MAX_CONNECTIONS == 2
\* most requests of one connection that may be unanswered at a time
MaxInFlight == 1
\* most parser tokens one read delivers
MaxRead == 2
\* most responses one connection may have queued
MaxQueue == 2
\* most system calls (stream, listener, notifier) that fail in one run
MaxFaults == 1

\* in_flight_response_count is a u32 (server.rs:92).  The model checker's
\* integers are 32-bit signed, so the largest of them stands for u32::MAX.
U32_MAX == 2147483647
\* wrapping u32 arithmetic, as a release build computes it
U32_add(x, n) == IF x > U32_MAX - n THEN x - U32_MAX - 1 + n ELSE x + n
U32_sub(x, n) == IF x < n THEN U32_MAX - (n - x) + 1 ELSE x - n

ListenerFd == 0
\* accept() returns the lowest descriptor that is not open; one more than
\* the map can hold is enough for the stream that is refused at capacity.
Fds == 1..(MAX_CONNECTIONS + 1)

---------------------------------------------------------------------------
(* Codec: common/mod.rs, response.rs, common/headers.rs                    *)

CR_LF == "\r\n"
SP == " "

Version_raw(v) ==
    CASE v = "Http10" -> "HTTP/1.0"
      [] v = "Http11" -> "HTTP/1.1"

StatusCode_raw(s) ==
    CASE s = "Continue" -> "100"
      [] s = "OK" -> "200"
      [] s = "NoContent" -> "204"
      [] s = "BadRequest" -> "400"
      [] s = "NotFound" -> "404"
      [] s = "InternalServerError" -> "500"
      [] s = "NotImplemented" -> "501"

None == [is_some |-> FALSE, stream |-> ""]
Body_new(bytes) == [is_some |-> TRUE, stream |-> bytes]

Headers_default == [content_length |-> 0, map |-> <<>>]

Response_new(http_version, status_code) ==
    [status_line |-> [http_version |-> http_version, status_code |-> status_code],
     headers |-> Headers_default,
     body |-> None]

Response_with_body(r, bytes) ==
    [r EXCEPT !.headers.content_length = Len(bytes), !.body = Body_new(bytes)]

\* write_all() that puts a space after the status code
StatusLine_write_all_TrailingSP(sl) ==
    Version_raw(sl.http_version) \o SP \o StatusCode_raw(sl.status_code) \o SP \o CR_LF

\* StatusLine::write_all of a status line without a status message, as
\* Response::new makes it
StatusLine_write_all(sl) ==
    Version_raw(sl.http_version) \o SP \o StatusCode_raw(sl.status_code) \o CR_LF

\* the orders in which the iteration over a HashMap may visit its keys
Orders(map) ==
    {o \in [1..Cardinality(DOMAIN map) -> DOMAIN map] :
       \A i, j \in DOMAIN o : o[i] = o[j] => i = j}

\* the loop of Headers::write_all over the map, visiting the keys in `order`
RECURSIVE Headers_write_map(_, _)
Headers_write_map(map, order) ==
    IF order = <<>> THEN ""
    ELSE Head(order) \o ": " \o map[Head(order)] \o CR_LF
           \o Headers_write_map(map, Tail(order))

Headers_write_all(h, order) ==
    Headers_write_map(h.map, order)
        \o (IF h.content_length > 0
            THEN "Content-Length: " \o ToString(h.content_length) \o CR_LF
            ELSE "")
        \o CR_LF

\* Response::send when the map is visited in `order`: the bytes of one
\* response, as segments
Response_send_in(r, order) ==
    LET content_length == IF r.body.is_some THEN Len(r.body.stream) ELSE 0
        headers == [r.headers EXCEPT !.content_length = content_length]
    IN <<StatusLine_write_all(r.status_line) \o Headers_write_all(headers, order)>>
           \o (IF r.body.is_some /\ Len(r.body.stream) > 0
               THEN <<r.body.stream>> ELSE <<>>)

\* Response::send of a response whose map holds at most one header, as
\* those of the server do: there is one order
Response_send(r) ==
    Response_send_in(r, CHOOSE o \in Orders(r.headers.map) : TRUE)

\* Headers::add_header_line
Headers_add_header_line(h, key, value) ==
    [h EXCEPT !.map = (key :> value) @@ @]

\* Response::with_header
Response_with_header(r, key, value) ==
    [r EXCEPT !.headers = Headers_add_header_line(@, key, value)]

SERVER_FULL_ERROR_MESSAGE ==
    "HTTP/1.1 503\r\nServer: Firecracker API\r\nConnection: close\r\nContent-Length: 40\r\n\r\n{ \"error\": \"Too many open connections\" }"

\* Display of the parse error of a malformed header line (common/mod.rs:42)
InvalidHeaderText == "Invalid header."
\* Display of the std::io::Error of a failed read
IoErrorText == "Connection reset by peer (os error 104)"


---------------------------------------------------------------------------
(* HttpConnection: one stream, its parser and its pending-write FIFO.      *)
(* What a read delivers is a sequence of parser tokens:                    *)
(*   "REQ"          a complete request without a body                      *)
(*   "HEAD"         request line and headers announcing a body             *)
(*   "HEAD_EXPECT"  the same, with `Expect: 100-continue`                  *)
(*   "BODY"         the announced body                                     *)
(*   "BAD"          a header line that does not parse (InvalidHeader)      *)

Request(method, expect, has_body) ==
    [method |-> method, expect |-> expect, has_body |-> has_body]

HttpConnection_new ==
    [pending |-> "none",          \* head of the request whose body is awaited
     parsed_requests |-> <<>>,    \* FIFO of parsed requests
     response_queue |-> <<>>,     \* FIFO of serialized responses
     cursor |-> 0]                \* segments of the head blob already written

HttpConnection_pending_write(h) == h.response_queue # <<>>

HttpConnection_enqueue_response(h, r) ==
    [h EXCEPT !.response_queue = Append(@, Response_send(r))]

\* the parsed queue after one pop, and the request popped
HttpConnection_pop_parsed_request(h) ==
    [connection |-> [h EXCEPT !.parsed_requests = Tail(@)],
     request |-> Head(h.parsed_requests)]

\* `while let Some(request) = pop_parsed_request()`: the connection with its
\* parsed queue drained, and the requests popped, in order
RECURSIVE PopAll(_, _)
PopAll(h, acc) ==
    IF h.parsed_requests = <<>> THEN [connection |-> h, requests |-> acc]
    ELSE LET p == HttpConnection_pop_parsed_request(h)
         IN PopAll(p.connection, Append(acc, p.request))

RECURSIVE HttpConnection_parse(_, _)
HttpConnection_parse(h, data) ==
    IF data = <<>> THEN [connection |-> h, result |-> "Ok"]
    ELSE
      LET tok == Head(data) IN
      IF h.pending = "none" THEN
        CASE tok = "REQ" ->
               HttpConnection_parse(
                 [h EXCEPT !.parsed_requests = Append(@, Request("GET", FALSE, FALSE))],
                 Tail(data))
          [] tok = "HEAD" ->
               HttpConnection_parse([h EXCEPT !.pending = "HEAD"], Tail(data))
          [] tok = "HEAD_EXPECT" ->
               HttpConnection_parse(
                 [HttpConnection_enqueue_response(h, Response_new("Http11", "Continue"))
                    EXCEPT !.pending = "HEAD_EXPECT"],
                 Tail(data))
          [] OTHER -> [connection |-> h, result |-> "ParseError"]
      ELSE
        IF tok = "BODY"
        THEN HttpConnection_parse(
               [h EXCEPT !.parsed_requests =
                            Append(@, Request("PATCH", h.pending = "HEAD_EXPECT", TRUE)),
                         !.pending = "none"],
               Tail(data))
        ELSE [connection |-> [h EXCEPT !.pending = "none"], result |-> "ParseError"]

\* io is what the stream does on this read: [kind |-> "data", data |-> tokens],
\* [kind |-> "eof"] or [kind |-> "error"]
HttpConnection_try_read(h, io) ==
    CASE io.kind = "eof" -> [connection |-> h, result |-> "ConnectionClosed"]
      [] io.kind = "error" -> [connection |-> h, result |-> "StreamError"]
      [] io.kind = "data" -> HttpConnection_parse(h, io.data)

\* the segments still to be written, in order
RECURSIVE Flatten(_)
Flatten(q) == IF q = <<>> THEN <<>> ELSE Head(q) \o Flatten(Tail(q))

Remaining(h) ==
    LET all == Flatten(h.response_queue) IN SubSeq(all, h.cursor + 1, Len(all))

\* advance the cursor by n segments, popping every blob that is drained
RECURSIVE Advance(_, _)
Advance(h, n) ==
    IF n = 0 \/ h.response_queue = <<>> THEN h
    ELSE LET left == Len(Head(h.response_queue)) - h.cursor IN
         IF n >= left
         THEN Advance([h EXCEPT !.response_queue = Tail(@), !.cursor = 0], n - left)
         ELSE [h EXCEPT !.cursor = @ + n]

\* io is what the stream does on this write: [kind |-> "accept", n |-> segments],
\* [kind |-> "closed"] or [kind |-> "error"]
HttpConnection_try_write(h, io) ==
    IF ~HttpConnection_pending_write(h)
    THEN [connection |-> h, result |-> "InvalidWrite", written |-> <<>>]
    ELSE CASE io.kind = "closed" ->
                [connection |-> h, result |-> "ConnectionClosed", written |-> <<>>]
           [] io.kind = "error" ->
                [connection |-> h, result |-> "StreamError", written |-> <<>>]
           [] io.kind = "accept" ->
                [connection |-> Advance(h, io.n), result |-> "Ok",
                 written |-> SubSeq(Remaining(h), 1, io.n)]

---------------------------------------------------------------------------
(* ClientConnection: server.rs:84-193                                      *)

ClientConnection_new(connection) ==
    [connection |-> connection,
     state |-> "AwaitingIncoming",
     in_flight_response_count |-> 0]

ParseErrorBody(text) ==
    "{ \"error\": \"" \o text
        \o "\nAll previous unanswered requests will be dropped.\" }"

\* the end of read() without the count of the requests it yields
ClientConnection_read_finish_Uncounted(c, h, parsed) ==
    [conn |-> [c EXCEPT
                 !.connection = h,
                 !.state = IF HttpConnection_pending_write(h)
                           THEN "AwaitingOutgoing" ELSE @],
     requests |-> parsed]

\* the end of read() without the change of state
ClientConnection_read_finish_NoFlip(c, h, parsed) ==
    [conn |-> [c EXCEPT
                 !.connection = h,
                 !.in_flight_response_count = U32_add(@, Len(parsed))],
     requests |-> parsed]

\* the tail of read(): count the yielded requests, flip to AwaitingOutgoing
ClientConnection_read_finish(c, h, parsed) ==
    [conn |-> [c EXCEPT
                 !.connection = h,
                 !.in_flight_response_count = U32_add(@, Len(parsed)),
                 !.state = IF HttpConnection_pending_write(h)
                           THEN "AwaitingOutgoing" ELSE @],
     requests |-> parsed]

\* read() that also empties the pending-write FIFO on a parse error
ClientConnection_read_ClearOnError(c, io) ==
    LET tr == HttpConnection_try_read(c.connection, io) IN
    CASE tr.result = "ConnectionClosed" ->
           [conn |-> [c EXCEPT !.connection = tr.connection, !.state = "Closed"],
            requests |-> <<>>]
      [] tr.result = "StreamError" ->
           ClientConnection_read_finish(c,
             HttpConnection_enqueue_response(tr.connection,
               Response_with_body(Response_new("Http11", "InternalServerError"),
                                  IoErrorText)),
             <<>>)
      [] tr.result = "ParseError" ->
           ClientConnection_read_finish(c,
             HttpConnection_enqueue_response(
               [PopAll(tr.connection, <<>>).connection
                  EXCEPT !.response_queue = <<>>, !.cursor = 0],
               Response_with_body(Response_new("Http11", "BadRequest"),
                                  ParseErrorBody(InvalidHeaderText))),
             <<>>)
      [] tr.result = "Ok" ->
           ClientConnection_read_finish(c,
             PopAll(tr.connection, <<>>).connection,
             PopAll(tr.connection, <<>>).requests)

\* read() that forgets the unanswered requests at end of file
ClientConnection_read_EofForgets(c, io) ==
    LET tr == HttpConnection_try_read(c.connection, io) IN
    CASE tr.result = "ConnectionClosed" ->
           [conn |-> [c EXCEPT !.connection = tr.connection, !.state = "Closed",
                               !.in_flight_response_count = 0],
            requests |-> <<>>]
      [] tr.result = "StreamError" ->
           ClientConnection_read_finish(c,
             HttpConnection_enqueue_response(tr.connection,
               Response_with_body(Response_new("Http11", "InternalServerError"),
                                  IoErrorText)),
             <<>>)
      [] tr.result = "ParseError" ->
           ClientConnection_read_finish(c,
             HttpConnection_enqueue_response(
               PopAll(tr.connection, <<>>).connection,
               Response_with_body(Response_new("Http11", "BadRequest"),
                                  ParseErrorBody(InvalidHeaderText))),
             <<>>)
      [] tr.result = "Ok" ->
           ClientConnection_read_finish(c,
             PopAll(tr.connection, <<>>).connection,
             PopAll(tr.connection, <<>>).requests)

\* read() that leaves the parsed requests queued on a parse error
ClientConnection_read_KeepParsed(c, io) ==
    LET tr == HttpConnection_try_read(c.connection, io) IN
    CASE tr.result = "ConnectionClosed" ->
           [conn |-> [c EXCEPT !.connection = tr.connection, !.state = "Closed"],
            requests |-> <<>>]
      [] tr.result = "StreamError" ->
           ClientConnection_read_finish(c,
             HttpConnection_enqueue_response(tr.connection,
               Response_with_body(Response_new("Http11", "InternalServerError"),
                                  IoErrorText)),
             <<>>)
      [] tr.result = "ParseError" ->
           ClientConnection_read_finish(c,
             HttpConnection_enqueue_response(
               tr.connection,
               Response_with_body(Response_new("Http11", "BadRequest"),
                                  ParseErrorBody(InvalidHeaderText))),
             <<>>)
      [] tr.result = "Ok" ->
           ClientConnection_read_finish(c,
             PopAll(tr.connection, <<>>).connection,
             PopAll(tr.connection, <<>>).requests)

\* read() that leaves the state as it is after a stream error
ClientConnection_read_ErrorStaysIncoming(c, io) ==
    LET tr == HttpConnection_try_read(c.connection, io) IN
    CASE tr.result = "ConnectionClosed" ->
           [conn |-> [c EXCEPT !.connection = tr.connection, !.state = "Closed"],
            requests |-> <<>>]
      [] tr.result = "StreamError" ->
           [conn |-> [c EXCEPT !.connection =
                        HttpConnection_enqueue_response(tr.connection,
                          Response_with_body(
                            Response_new("Http11", "InternalServerError"),
                            IoErrorText))],
            requests |-> <<>>]
      [] tr.result = "ParseError" ->
           ClientConnection_read_finish(c,
             HttpConnection_enqueue_response(
               PopAll(tr.connection, <<>>).connection,
               Response_with_body(Response_new("Http11", "BadRequest"),
                                  ParseErrorBody(InvalidHeaderText))),
             <<>>)
      [] tr.result = "Ok" ->
           ClientConnection_read_finish(c,
             PopAll(tr.connection, <<>>).connection,
             PopAll(tr.connection, <<>>).requests)

\* read() that forgets the unanswered requests on a parse error
ClientConnection_read_ParseErrorForgets(c, io) ==
    LET tr == HttpConnection_try_read(c.connection, io) IN
    CASE tr.result = "ConnectionClosed" ->
           [conn |-> [c EXCEPT !.connection = tr.connection, !.state = "Closed"],
            requests |-> <<>>]
      [] tr.result = "StreamError" ->
           ClientConnection_read_finish(c,
             HttpConnection_enqueue_response(tr.connection,
               Response_with_body(Response_new("Http11", "InternalServerError"),
                                  IoErrorText)),
             <<>>)
      [] tr.result = "ParseError" ->
           ClientConnection_read_finish([c EXCEPT !.in_flight_response_count = 0],
             HttpConnection_enqueue_response(
               PopAll(tr.connection, <<>>).connection,
               Response_with_body(Response_new("Http11", "BadRequest"),
                                  ParseErrorBody(InvalidHeaderText))),
             <<>>)
      [] tr.result = "Ok" ->
           ClientConnection_read_finish(c,
             PopAll(tr.connection, <<>>).connection,
             PopAll(tr.connection, <<>>).requests)

ClientConnection_read(c, io) ==
    LET tr == HttpConnection_try_read(c.connection, io) IN
    CASE tr.result = "ConnectionClosed" ->
           [conn |-> [c EXCEPT !.connection = tr.connection, !.state = "Closed"],
            requests |-> <<>>]
      [] tr.result = "StreamError" ->
           ClientConnection_read_finish(c,
             HttpConnection_enqueue_response(tr.connection,
               Response_with_body(Response_new("Http11", "InternalServerError"),
                                  IoErrorText)),
             <<>>)
      [] tr.result = "ParseError" ->
           ClientConnection_read_finish(c,
             HttpConnection_enqueue_response(
               PopAll(tr.connection, <<>>).connection,
               Response_with_body(Response_new("Http11", "BadRequest"),
                                  ParseErrorBody(InvalidHeaderText))),
             <<>>)
      [] tr.result = "Ok" ->
           ClientConnection_read_finish(c,
             PopAll(tr.connection, <<>>).connection,
             PopAll(tr.connection, <<>>).requests)

\* write() that throws the backlog away when the stream fails
ClientConnection_write_DropsOnFailure(c, io) ==
    LET tw == HttpConnection_try_write(c.connection, io) IN
    CASE tw.result \in {"ConnectionClosed", "StreamError"} ->
           [conn |-> [c EXCEPT !.connection.response_queue = <<>>,
                               !.connection.cursor = 0,
                               !.state = "Closed"],
            ret |-> "Ok", written |-> tw.written]
      [] tw.result = "InvalidWrite" ->
           [conn |-> c, ret |-> "InvalidWrite", written |-> <<>>]
      [] OTHER ->
           [conn |-> [c EXCEPT !.connection = tw.connection,
                               !.state = IF ~HttpConnection_pending_write(tw.connection)
                                         THEN "AwaitingIncoming" ELSE @],
            ret |-> "Ok", written |-> tw.written]

\* write() that leaves the state as it is when the backlog is written
ClientConnection_write_StaysOutgoing(c, io) ==
    LET tw == HttpConnection_try_write(c.connection, io) IN
    CASE tw.result \in {"ConnectionClosed", "StreamError"} ->
           [conn |-> [c EXCEPT !.connection = tw.connection, !.state = "Closed"],
            ret |-> "Ok", written |-> tw.written]
      [] tw.result = "InvalidWrite" ->
           [conn |-> c, ret |-> "InvalidWrite", written |-> <<>>]
      [] OTHER ->
           [conn |-> [c EXCEPT !.connection = tw.connection],
            ret |-> "Ok", written |-> tw.written]

\* write() that hands the failure of the stream to its caller
ClientConnection_write_FailurePropagates(c, io) ==
    LET tw == HttpConnection_try_write(c.connection, io) IN
    CASE tw.result \in {"ConnectionClosed", "StreamError"} ->
           [conn |-> [c EXCEPT !.connection = tw.connection, !.state = "Closed"],
            ret |-> "InvalidWrite", written |-> tw.written]
      [] tw.result = "InvalidWrite" ->
           [conn |-> c, ret |-> "InvalidWrite", written |-> <<>>]
      [] OTHER ->
           [conn |-> [c EXCEPT !.connection = tw.connection,
                               !.state = IF ~HttpConnection_pending_write(tw.connection)
                                         THEN "AwaitingIncoming" ELSE @],
            ret |-> "Ok", written |-> tw.written]

\* ret is "Ok" or "InvalidWrite"; written is what the stream received
ClientConnection_write(c, io) ==
    LET tw == HttpConnection_try_write(c.connection, io) IN
    CASE tw.result \in {"ConnectionClosed", "StreamError"} ->
           [conn |-> [c EXCEPT !.connection = tw.connection, !.state = "Closed"],
            ret |-> "Ok", written |-> tw.written]
      [] tw.result = "InvalidWrite" ->
           [conn |-> c, ret |-> "InvalidWrite", written |-> <<>>]
      [] OTHER ->
           [conn |-> [c EXCEPT !.connection = tw.connection,
                               !.state = IF ~HttpConnection_pending_write(tw.connection)
                                         THEN "AwaitingIncoming" ELSE @],
            ret |-> "Ok", written |-> tw.written]

\* enqueue_response() that does not count the response
ClientConnection_enqueue_response_Uncounted(c, response) ==
    [c EXCEPT
       !.connection = IF c.state # "Closed"
                      THEN HttpConnection_enqueue_response(@, response) ELSE @]

\* enqueue_response() that returns at once on a Closed connection
ClientConnection_enqueue_response_SkipClosed(c, response) ==
    IF c.state = "Closed" THEN c
    ELSE [c EXCEPT
            !.connection = HttpConnection_enqueue_response(@, response),
            !.in_flight_response_count = U32_sub(@, 1)]

\* enqueue_response() without the check of the state
ClientConnection_enqueue_response_Unchecked(c, response) ==
    [c EXCEPT
       !.connection = HttpConnection_enqueue_response(@, response),
       !.in_flight_response_count = U32_sub(@, 1)]

ClientConnection_enqueue_response(c, response) ==
    [c EXCEPT
       !.connection = IF c.state # "Closed"
                      THEN HttpConnection_enqueue_response(@, response) ELSE @,
       !.in_flight_response_count = U32_sub(@, 1)]

\* is_done() without the test for pending bytes
ClientConnection_is_done_NoBacklog(c) ==
    /\ c.state = "Closed"
    /\ c.in_flight_response_count = 0

\* is_done() without the count of unanswered requests
ClientConnection_is_done_AnyInFlight(c) ==
    /\ c.state = "Closed"
    /\ ~HttpConnection_pending_write(c.connection)

ClientConnection_is_done(c) ==
    /\ c.state = "Closed"
    /\ ~HttpConnection_pending_write(c.connection)
    /\ c.in_flight_response_count = 0

---------------------------------------------------------------------------
(* Environment: what the streams and the application may do.               *)

\* whether a system call may fail now, and the record after it did or did not
CanFail == faults < MaxFaults
MayFail == IF CanFail THEN BOOLEAN ELSE {TRUE}
Fault(fails) == faults' = IF fails THEN faults + 1 ELSE faults

\* token sequences a peer may send to a parser that awaits `pending`
RECURSIVE Inputs(_, _)
Inputs(pending, n) ==
    IF n = 0 THEN {<<>>}
    ELSE LET first == IF pending = "none"
                      THEN {"REQ", "HEAD", "HEAD_EXPECT", "BAD"} ELSE {"BODY"}
             after(t) == IF t \in {"HEAD", "HEAD_EXPECT"} THEN t ELSE "none"
         IN {<<>>} \cup
            UNION {{<<t>> \o rest : rest \in (IF t = "BAD" THEN {<<>>}
                                              ELSE Inputs(after(t), n - 1))}
                   : t \in first}

\* requests a token sequence completes
Completed(data) == Cardinality({i \in 1..Len(data) : data[i] \in {"REQ", "BODY"}})

\* responses the server has to synthesize for a token sequence
Synthesized(data) ==
    Cardinality({i \in 1..Len(data) : data[i] \in {"HEAD_EXPECT", "BAD"}})

\* what a stream may do on a read of connection c: end of file, an error
\* or, until it has reported end of file, data
ReadOutcomes(fd, c) ==
    LET room == MaxQueue - Len(c.connection.response_queue) IN
    {[kind |-> "eof"]} \cup
    (IF room > 0 /\ CanFail THEN {[kind |-> "error"]} ELSE {}) \cup
    (IF hup[fd] THEN {}
     ELSE {[kind |-> "data", data |-> d] :
             d \in {x \in Inputs(c.connection.pending, MaxRead) :
                      /\ x # <<>>
                      /\ Synthesized(x) <= room
                      /\ U32_add(c.in_flight_response_count, Completed(x))
                           <= MaxInFlight}})

\* what a stream may do on a write of connection c
WriteOutcomes(c) ==
    (IF CanFail THEN {[kind |-> "closed"], [kind |-> "error"]} ELSE {}) \cup
    {[kind |-> "accept", n |-> n] : n \in 1..Len(Remaining(c.connection))}

\* responses the application builds
AppResponses ==
    {Response_with_body(Response_new("Http11", "OK"), "response body")}

\* the segments the read of `io` obliges the server to send
RECURSIVE ContinueSegments(_)
ContinueSegments(data) ==
    IF data = <<>> \/ Head(data) = "BAD" THEN <<>>
    ELSE (IF Head(data) = "HEAD_EXPECT"
          THEN <<"HTTP/1.1 100\r\n\r\n">> ELSE <<>>)
         \o ContinueSegments(Tail(data))

ReadObligation(io) ==
    CASE io.kind = "eof" -> <<>>
      [] io.kind = "error" ->
           <<"HTTP/1.1 500\r\nContent-Length: 39\r\n\r\n", IoErrorText>>
      [] io.kind = "data" ->
           ContinueSegments(io.data) \o
           (IF \E i \in 1..Len(io.data) : io.data[i] = "BAD"
            THEN <<"HTTP/1.1 400\r\nContent-Length: 80\r\n\r\n",
                   "{ \"error\": \"Invalid header.\nAll previous unanswered requests will be dropped.\" }">>
            ELSE <<>>)

\* the requests of a sequence that carry `Expect: 100-continue`
Expecting(requests) ==
    Cardinality({i \in 1..Len(requests) : requests[i].expect})

\* the 100 Continue responses in a pending-write FIFO
Continues(q) ==
    Cardinality({i \in 1..Len(q) :
                   q[i] = Response_send(Response_new("Http11", "Continue"))})

IsPrefix(a, b) == Len(a) <= Len(b) /\ SubSeq(b, 1, Len(a)) = a

---------------------------------------------------------------------------
(* HttpServer: server.rs:238-465                                           *)

Ok == [val |-> "Ok", cause |-> "none"]
\* the value of `wire` in the specifications of the server
NoWire == <<>>
Err(e, cause) == [val |-> e, cause |-> cause]
\* the value of `result` while requests() runs
Running == [val |-> "Running", cause |-> "none"]
\* the same, when epoll.wait was interrupted (server.rs:300)
Interrupted == [val |-> "Running", cause |-> "EINTR"]

ServerRequest_new(request, id) == [request |-> request, id |-> id]

RECURSIVE Wrap(_, _)
Wrap(requests, id) ==
    IF requests = <<>> THEN <<>>
    ELSE <<ServerRequest_new(Head(requests), id)>> \o Wrap(Tail(requests), id)

\* number of ServerRequests of a Vec that carry id
CountId(reqs, id) == Cardinality({i \in 1..Len(reqs) : reqs[i].id = id})

Init ==
    /\ started = FALSE
    /\ connections = <<>>
    /\ epoll = <<>>
    /\ pc = "idle"
    /\ events = {}
    /\ parsed_requests = <<>>
    /\ result = Ok
    /\ hup = [fd \in Fds |-> FALSE]
    /\ rejected = <<>>
    /\ owed = [fd \in Fds |-> 0]
    /\ reaped = {}
    /\ credit = [fd \in Fds |-> 0]
    /\ faults = 0
    /\ fifo = [fd \in Fds |-> <<>>]
    /\ wire_ok = TRUE
    /\ held = [fd \in Fds |-> "none"]
    /\ wire = NoWire

\* epoll_add: register fd for readable events
HttpServer_epoll_add(ep, fd) == (fd :> "IN") @@ ep

\* epoll_mod adding evset to the interest of fd instead of replacing it
HttpServer_epoll_mod_Accumulate(ep, fd, evset) ==
    [ep EXCEPT ![fd] = IF @ = evset THEN @ ELSE "INOUT"]

\* epoll_mod that sets the interest of every registered client stream
HttpServer_epoll_mod_All(ep, fd, evset) ==
    [f \in DOMAIN ep |-> IF f = ListenerFd THEN ep[f] ELSE evset]

\* epoll_mod that returns Ok without changing the interest
HttpServer_epoll_mod_Ignored(ep, fd, evset) == ep

\* epoll_mod: replace the interest of fd
HttpServer_epoll_mod(ep, fd, evset) == [ep EXCEPT ![fd] = evset]

\* start_server(): ok is whether EPOLL_CTL_ADD succeeds
StartServer ==
    /\ ~started /\ pc = "idle"
    /\ \E ok \in MayFail :
         /\ Fault(~ok)
         /\ IF ok
            THEN /\ epoll' = HttpServer_epoll_add(epoll, ListenerFd)
                 /\ started' = TRUE
                 /\ result' = Ok
            ELSE /\ result' = Err("IOError", "epoll_ctl")
                 /\ UNCHANGED <<epoll, started>>
    /\ UNCHANGED <<connections, pc, events, parsed_requests, hup, rejected,
                   owed, reaped, credit, fifo, wire_ok, held, wire>>

\* the batches epoll.wait may report: distinct registered descriptors, each
\* with its registered interest, at most MAX_CONNECTIONS of them.  The loop
\* takes them in the order of the array, which may be any order.
Batches(fds, n) == {b \in SUBSET fds : b # {} /\ Cardinality(b) <= n}

EpollEvent(fd) == [fd |-> fd, event_set |-> epoll[fd]]

\* epoll.wait whose interruption is returned as an error like any other
Requests_wait_InterruptIsError ==
    /\ started /\ pc = "idle"
    /\ \E w \in {"events", "EINTR"} \cup
                (IF CanFail THEN {"error"} ELSE {}) :
         /\ Fault(w = "error")
         /\ CASE w = "events" ->
                   \E b \in Batches(DOMAIN epoll, MAX_CONNECTIONS) :
                     /\ events' = {EpollEvent(fd) : fd \in b}
                     /\ pc' = "dispatch"
                     /\ result' = Running
              [] w = "EINTR" ->
                   /\ result' = Err("IOError", "EINTR")
                   /\ UNCHANGED <<events, pc>>
              [] w = "error" ->
                   /\ result' = Err("IOError", "epoll_wait")
                   /\ UNCHANGED <<events, pc>>
    /\ parsed_requests' = <<>>
    /\ rejected' = <<>>
    /\ reaped' = {}
    /\ UNCHANGED <<started, connections, epoll, hup, owed, credit, fifo, wire_ok,
                   held, wire>>

\* requests(), first part: epoll.wait.  w is "events", "EINTR" or "error".
Requests_wait ==
    /\ started /\ pc = "idle"
    /\ \E w \in {"events", "EINTR"} \cup
                (IF CanFail THEN {"error"} ELSE {}) :
         /\ Fault(w = "error")
         /\ CASE w = "events" ->
                   \E b \in Batches(DOMAIN epoll, MAX_CONNECTIONS) :
                     /\ events' = {EpollEvent(fd) : fd \in b}
                     /\ pc' = "dispatch"
                     /\ result' = Running
              [] w = "EINTR" ->
                   /\ events' = {}
                   /\ pc' = "dispatch"
                   /\ result' = Interrupted
              [] w = "error" ->
                   /\ result' = Err("IOError", "epoll_wait")
                   /\ UNCHANGED <<events, pc>>
    /\ parsed_requests' = <<>>
    /\ rejected' = <<>>
    /\ reaped' = {}
    /\ UNCHANGED <<started, connections, epoll, hup, owed, credit, fifo, wire_ok,
                   held, wire>>

\* requests() returns Err from inside the loop: the local Vec is dropped
ReturnErr(e, cause) ==
    /\ pc' = "idle"
    /\ events' = {}
    /\ parsed_requests' = <<>>
    /\ result' = Err(e, cause)

Continue(e) ==
    /\ events' = events \ {e}
    /\ UNCHANGED <<pc, result>>

\* handle_new_connection() refusing only above MAX_CONNECTIONS
HttpServer_handle_new_connection_OffByOne(conns, ep, io) ==
    IF Cardinality(DOMAIN conns) > MAX_CONNECTIONS
    THEN [ret |-> "ServerFull", connections |-> conns, epoll |-> ep]
    ELSE IF io # "ok"
    THEN [ret |-> "IOError", connections |-> conns, epoll |-> ep]
    ELSE LET fd == CHOOSE f \in Fds \ DOMAIN conns :
                       \A g \in Fds \ DOMAIN conns : f <= g
         IN [ret |-> "Ok",
             connections |-> (fd :> ClientConnection_new(HttpConnection_new)) @@ conns,
             epoll |-> HttpServer_epoll_add(ep, fd)]

\* handle_new_connection() without the capacity check
HttpServer_handle_new_connection_NoLimit(conns, ep, io) ==
    IF io # "ok" \/ Fds \ DOMAIN conns = {}
    THEN [ret |-> "IOError", connections |-> conns, epoll |-> ep]
    ELSE LET fd == CHOOSE f \in Fds \ DOMAIN conns :
                       \A g \in Fds \ DOMAIN conns : f <= g
         IN [ret |-> "Ok",
             connections |-> (fd :> ClientConnection_new(HttpConnection_new)) @@ conns,
             epoll |-> HttpServer_epoll_add(ep, fd)]

\* handle_new_connection(): io is "ok" or the system call that fails
HttpServer_handle_new_connection(conns, ep, io) ==
    IF Cardinality(DOMAIN conns) = MAX_CONNECTIONS
    THEN [ret |-> "ServerFull", connections |-> conns, epoll |-> ep]
    ELSE IF io # "ok"
    THEN [ret |-> "IOError", connections |-> conns, epoll |-> ep]
    ELSE LET fd == CHOOSE f \in Fds \ DOMAIN conns :
                       \A g \in Fds \ DOMAIN conns : f <= g
         IN [ret |-> "Ok",
             connections |-> (fd :> ClientConnection_new(HttpConnection_new)) @@ conns,
             epoll |-> HttpServer_epoll_add(ep, fd)]

\* requests(), an event on the listener (server.rs:311-331).  io is "ok" or
\* the system call that fails; at capacity the calls are accept and write
\* (any failure there is a failed accept or a failed write of the message).
Requests_accept(e) ==
    /\ pc = "dispatch" /\ e \in events
    /\ e.fd = ListenerFd
    /\ \E io \in {"ok"} \cup (IF CanFail
                              THEN {"accept", "set_nonblocking", "epoll_ctl", "write"}
                              ELSE {}) :
         LET r == HttpServer_handle_new_connection(connections, epoll, io)
             new == DOMAIN r.connections \ DOMAIN connections
         IN CASE r.ret = "ServerFull" ->
                   /\ io \in {"ok", "accept", "write"}
                   /\ Fault(io # "ok")
                   /\ UNCHANGED <<connections, epoll, hup, owed, credit, fifo>>
                   /\ IF io = "ok"
                      THEN /\ rejected' = <<SERVER_FULL_ERROR_MESSAGE>>
                           /\ Continue(e)
                           /\ UNCHANGED parsed_requests
                      ELSE /\ rejected' = <<>>
                           /\ ReturnErr("IOError", io \o " (refused stream)")
              [] r.ret = "IOError" ->
                   /\ io # "write"
                   /\ Fault(TRUE)
                   /\ ReturnErr("IOError", io)
                   /\ UNCHANGED <<connections, epoll, hup, owed, credit, fifo, rejected>>
              [] r.ret = "Ok" ->
                   /\ Fault(FALSE)
                   /\ credit' = [fd \in Fds |-> IF fd \in new THEN 0 ELSE credit[fd]]
                   /\ connections' = r.connections
                   /\ epoll' = r.epoll
                   /\ hup' = [fd \in Fds |-> IF fd \in new THEN FALSE ELSE hup[fd]]
                   /\ owed' = [fd \in Fds |-> IF fd \in new THEN 0 ELSE owed[fd]]
                   /\ fifo' = [fd \in Fds |-> IF fd \in new THEN <<>> ELSE fifo[fd]]
                   /\ Continue(e)
                   /\ UNCHANGED <<parsed_requests, rejected>>
    /\ UNCHANGED <<started, reaped, wire_ok, held, wire>>

\* requests(), a readable event on a client stream (server.rs:336-352)
Requests_read(e) ==
    /\ pc = "dispatch" /\ e \in events
    /\ e.fd # ListenerFd
    /\ e.event_set = "IN"
    /\ \E io \in ReadOutcomes(e.fd, connections[e.fd]) :
       \E mod_ok \in IF io.kind = "error" THEN {TRUE} ELSE MayFail :
         LET r == ClientConnection_read(connections[e.fd], io)
             mod == r.conn.state = "AwaitingOutgoing"
             tr == HttpConnection_try_read(connections[e.fd].connection, io)
             discarded == IF tr.result = "ParseError"
                          THEN PopAll(tr.connection, <<>>).requests ELSE <<>>
         IN
         /\ Fault(io.kind = "error" \/ (mod /\ ~mod_ok))
         /\ credit' = [credit EXCEPT ![e.fd] =
                         @ + Continues(r.conn.connection.response_queue)
                           - Continues(connections[e.fd].connection.response_queue)
                           - Expecting(r.requests) - Expecting(discarded)]
         /\ connections' = [connections EXCEPT ![e.fd] = r.conn]
         /\ hup' = [hup EXCEPT ![e.fd] = @ \/ io.kind = "eof"]
         /\ fifo' = [fifo EXCEPT ![e.fd] = @ \o ReadObligation(io)]
         /\ IF r.conn.state = "AwaitingOutgoing"
            THEN IF mod_ok
                 THEN /\ epoll' = HttpServer_epoll_mod(epoll, e.fd, "OUT")
                      /\ parsed_requests' = parsed_requests \o Wrap(r.requests, e.fd)
                      /\ Continue(e)
                 ELSE /\ ReturnErr("IOError", "epoll_ctl")
                      /\ UNCHANGED epoll
            ELSE /\ parsed_requests' = parsed_requests \o Wrap(r.requests, e.fd)
                 /\ Continue(e)
                 /\ UNCHANGED epoll
    /\ UNCHANGED <<started, rejected, owed, reaped, wire_ok, held, wire>>

\* requests(), a writable event on a client stream (server.rs:353-362)
Requests_write(e) ==
    /\ pc = "dispatch" /\ e \in events
    /\ e.fd # ListenerFd
    /\ e.event_set = "OUT"
    /\ \E io \in WriteOutcomes(connections[e.fd]) \cup
                   (IF HttpConnection_pending_write(connections[e.fd].connection)
                    THEN {} ELSE {[kind |-> "none"]}) :
       \E mod_ok \in IF io.kind = "accept" THEN MayFail ELSE {TRUE} :
         LET r == ClientConnection_write(connections[e.fd], io) IN
         IF r.ret = "InvalidWrite"
         THEN /\ ReturnErr("ConnectionError", "none")
              /\ UNCHANGED <<connections, epoll, faults, fifo, wire_ok>>
         ELSE /\ Fault(io.kind # "accept" \/ (r.conn.state = "AwaitingIncoming" /\ ~mod_ok))
              /\ connections' = [connections EXCEPT ![e.fd] = r.conn]
              /\ wire_ok' = (wire_ok /\ IsPrefix(r.written, fifo[e.fd]))
              /\ fifo' = [fifo EXCEPT ![e.fd] = SubSeq(@, Len(r.written) + 1, Len(@))]
              /\ IF r.conn.state = "AwaitingIncoming"
                 THEN IF mod_ok
                      THEN /\ epoll' = HttpServer_epoll_mod(epoll, e.fd, "IN")
                           /\ Continue(e)
                           /\ UNCHANGED parsed_requests
                      ELSE /\ ReturnErr("IOError", "epoll_ctl")
                           /\ UNCHANGED epoll
                 ELSE /\ Continue(e)
                      /\ UNCHANGED <<epoll, parsed_requests>>
    /\ UNCHANGED <<started, hup, rejected, owed, reaped, credit, held, wire>>

\* the connections `retain` removes
Done(conns) == {fd \in DOMAIN conns : ClientConnection_is_done(conns[fd])}

\* the retain of requests() if a removed stream stayed in the interest list
Requests_retain_StaysRegistered ==
    /\ pc = "dispatch" /\ events = {}
    /\ LET done == Done(connections) IN
       /\ connections' = [fd \in DOMAIN connections \ done |-> connections[fd]]
       /\ hup' = [fd \in Fds |-> IF fd \in done THEN FALSE ELSE hup[fd]]
       /\ fifo' = [fd \in Fds |-> IF fd \in done THEN <<>> ELSE fifo[fd]]
       /\ owed' = [fd \in Fds |-> IF fd \in done THEN 0
                                  ELSE owed[fd] + CountId(parsed_requests, fd)]
       /\ credit' = [fd \in Fds |-> IF fd \in done THEN 0 ELSE credit[fd]]
       /\ reaped' = done
    /\ result' = Ok
    /\ pc' = "idle"
    /\ parsed_requests' = <<>>
    /\ UNCHANGED <<started, events, rejected, faults, wire_ok, epoll>>

\* requests(), after the last event: remove dead connections and return the
\* requests (server.rs:366-370).  Dropping a connection closes its stream,
\* which takes it out of the interest list.
Requests_retain ==
    /\ pc = "dispatch" /\ events = {}
    /\ LET done == Done(connections) IN
       /\ connections' = [fd \in DOMAIN connections \ done |-> connections[fd]]
       /\ epoll' = [fd \in DOMAIN epoll \ done |-> epoll[fd]]
       /\ hup' = [fd \in Fds |-> IF fd \in done THEN FALSE ELSE hup[fd]]
       /\ fifo' = [fd \in Fds |-> IF fd \in done THEN <<>> ELSE fifo[fd]]
       /\ owed' = [fd \in Fds |-> IF fd \in done THEN 0
                                  ELSE owed[fd] + CountId(parsed_requests, fd)]
       /\ credit' = [fd \in Fds |-> IF fd \in done THEN 0 ELSE credit[fd]]
       /\ reaped' = done
    /\ result' = Ok
    /\ pc' = "idle"
    /\ parsed_requests' = <<>>
    /\ UNCHANGED <<started, events, rejected, faults, wire_ok>>

\* the end of requests() when the application forgets every id once it has
\* responded
Requests_sweep == Requests_retain /\ UNCHANGED <<held, wire>>

\* the end of requests() when the application keeps the ids of the requests
\* it is given: the id of a removed connection becomes stale
Requests_sweep_keep ==
    /\ Requests_retain
    /\ held' = [fd \in Fds |->
                  IF fd \in Done(connections)
                  THEN (IF held[fd] = "live" THEN "stale" ELSE held[fd])
                  ELSE IF CountId(parsed_requests, fd) > 0 THEN "live"
                  ELSE held[fd]]
    /\ UNCHANGED wire

\* respond() (server.rs:393-404).  mod_ok is whether epoll_mod succeeds;
\* checks is whether the build has overflow checks: with them the
\* subtraction of server.rs:184 panics at 0 (after the enqueue of
\* server.rs:182), without them it wraps.
HttpServer_respond(id, response, mod_ok, checks) ==
    IF id \in DOMAIN connections
    THEN LET c == connections[id]
             flip == c.state = "AwaitingIncoming"
             c1 == IF flip THEN [c EXCEPT !.state = "AwaitingOutgoing"] ELSE c
             c2 == ClientConnection_enqueue_response(c1, response)
         IN /\ Fault(flip /\ ~mod_ok)
            /\ IF flip /\ ~mod_ok
               THEN /\ connections' = [connections EXCEPT ![id] = c1]
                    /\ result' = Err("IOError", "epoll_ctl")
                    /\ UNCHANGED <<epoll, fifo, pc>>
               ELSE /\ epoll' = IF flip THEN HttpServer_epoll_mod(epoll, id, "OUT")
                                ELSE epoll
                    /\ fifo' = [fifo EXCEPT ![id] =
                                  IF c.state # "Closed"
                                  THEN @ \o Response_send(response) ELSE @]
                    /\ IF c.in_flight_response_count = 0 /\ checks
                       THEN /\ connections' =
                                 [connections EXCEPT
                                    ![id] = [c2 EXCEPT !.in_flight_response_count = 0]]
                            /\ result' = Err("panic", "subtract with overflow")
                            /\ pc' = "panicked"
                       ELSE /\ connections' = [connections EXCEPT ![id] = c2]
                            /\ result' = Ok
                            /\ UNCHANGED pc
    ELSE /\ result' = Ok
         /\ UNCHANGED <<connections, epoll, faults, fifo, pc>>

\* respond(): the application answers, once, a request it was given with
\* id `id`
Respond(id, response) ==
    /\ pc = "idle"
    /\ owed[id] > 0
    /\ id \in DOMAIN connections =>
         Len(connections[id].connection.response_queue) < MaxQueue
    /\ \E mod_ok \in MayFail, checks \in BOOLEAN :
         HttpServer_respond(id, response, mod_ok, checks)
    /\ owed' = IF id \in DOMAIN connections
               THEN [owed EXCEPT ![id] = @ - 1] ELSE owed
    /\ UNCHANGED <<started, events, parsed_requests, hup, rejected, reaped,
                   credit, wire_ok, held, wire>>

\* respond() called again with an id the application has kept, after the
\* connection of that id was removed
Respond_stale(id, response) ==
    /\ pc = "idle"
    /\ held[id] = "stale"
    /\ id \in DOMAIN connections =>
         Len(connections[id].connection.response_queue) < MaxQueue
    /\ \E mod_ok \in MayFail, checks \in BOOLEAN :
         HttpServer_respond(id, response, mod_ok, checks)
    /\ held' = [held EXCEPT ![id] = "none"]
    /\ UNCHANGED <<started, events, parsed_requests, hup, rejected, owed,
                   reaped, credit, wire_ok, wire>>

Next ==
    \/ StartServer
    \/ Requests_wait
    \/ \E e \in events : Requests_accept(e)
    \/ \E e \in events : Requests_read(e)
    \/ \E e \in events : Requests_write(e)
    \/ Requests_sweep
    \/ \E id \in Fds, response \in AppResponses : Respond(id, response)

Spec == Init /\ [][Next]_vars

\* the server with an application that keeps the ids it was given and may
\* respond once more with an id whose connection is gone
Next_stale ==
    \/ StartServer
    \/ Requests_wait
    \/ \E e \in events : Requests_accept(e)
    \/ \E e \in events : Requests_read(e)
    \/ \E e \in events : Requests_write(e)
    \/ Requests_sweep_keep
    \/ \E id \in Fds, response \in AppResponses : Respond(id, response)
    \/ \E id \in Fds, response \in AppResponses : Respond_stale(id, response)

\* the same construction, in an environment where no system call fails
Init_stale ==
    /\ started = FALSE
    /\ connections = <<>>
    /\ epoll = <<>>
    /\ pc = "idle"
    /\ events = {}
    /\ parsed_requests = <<>>
    /\ result = Ok
    /\ hup = [fd \in Fds |-> FALSE]
    /\ rejected = <<>>
    /\ owed = [fd \in Fds |-> 0]
    /\ reaped = {}
    /\ credit = [fd \in Fds |-> 0]
    /\ faults = MaxFaults
    /\ fifo = [fd \in Fds |-> <<>>]
    /\ wire_ok = TRUE
    /\ held = [fd \in Fds |-> "none"]
    /\ wire = NoWire

SpecStale == Init_stale /\ [][Next_stale]_vars

\* a step in which an operation of the notifier fails: epoll_ctl
\* (server.rs:445-464) or epoll.wait other than by EINTR (server.rs:301)
NotifierFails ==
    /\ faults' # faults
    /\ result'.cause \in {"epoll_ctl", "epoll_wait"}

\* the server where streams and accept may fail and the notifier does not
Next_reliable ==
    \/ StartServer /\ ~NotifierFails
    \/ Requests_wait /\ ~NotifierFails
    \/ \E e \in events : Requests_accept(e) /\ ~NotifierFails
    \/ \E e \in events : Requests_read(e) /\ ~NotifierFails
    \/ \E e \in events : Requests_write(e) /\ ~NotifierFails
    \/ Requests_sweep
    \/ \E id \in Fds, response \in AppResponses :
         Respond(id, response) /\ ~NotifierFails

SpecReliable == Init /\ [][Next_reliable]_vars

\* epoll.wait reports descriptor fd, registered for writable events, as
\* writable (server.rs:298): the stream accepts bytes
Reports(fd) ==
    /\ fd \in DOMAIN epoll /\ epoll[fd] = "OUT"
    /\ Requests_wait
    /\ EpollEvent(fd) \in events'

\* the loop of requests() takes the next event of the batch
\* (server.rs:307-364)
Dispatch ==
    \E e \in events : Requests_accept(e) \/ Requests_read(e) \/ Requests_write(e)

\* requests(), a writable event on a client stream whose peer is gone: the
\* connection was closed by a failed write, and the write fails again
\* (server.rs:353-362 with the ConnectionClosed arm of server.rs:161-164).
\* A peer that is gone stays gone, so these failures are not counted
\* against the failures the environment may choose.
Requests_write_gone(e) ==
    /\ pc = "dispatch" /\ e \in events
    /\ e.fd # ListenerFd
    /\ e.event_set = "OUT"
    /\ connections[e.fd].state = "Closed"
    /\ HttpConnection_pending_write(connections[e.fd].connection)
    /\ LET r == ClientConnection_write(connections[e.fd], [kind |-> "closed"]) IN
         /\ r.ret = "Ok"
         /\ connections' = [connections EXCEPT ![e.fd] = r.conn]
    /\ Continue(e)
    /\ UNCHANGED <<started, epoll, parsed_requests, hup, rejected, owed, reaped,
                   credit, faults, fifo, wire_ok, held, wire>>

\* a read of a stream that is at end of file meets end of file again, and a
\* write to a stream that a failed write has closed is not accepted
Requests_read_gone(e) ==
    /\ Requests_read(e) /\ ~NotifierFails
    /\ hup[e.fd] => fifo'[e.fd] = fifo[e.fd]

Requests_write_live(e) ==
    /\ e.fd # ListenerFd
    /\ connections[e.fd].state # "Closed"
    /\ Requests_write(e) /\ ~NotifierFails

\* the server with a reliable notifier and peers that, once gone, stay gone
Next_gone ==
    \/ StartServer /\ ~NotifierFails
    \/ Requests_wait /\ ~NotifierFails
    \/ \E e \in events : Requests_accept(e) /\ ~NotifierFails
    \/ \E e \in events : Requests_read_gone(e)
    \/ \E e \in events : Requests_write_live(e)
    \/ \E e \in events : Requests_write_gone(e)
    \/ Requests_sweep
    \/ \E id \in Fds, response \in AppResponses :
         Respond(id, response) /\ ~NotifierFails

\* the loop of requests() takes the next event of the batch
Dispatch_gone ==
    \E e \in events :
      \/ Requests_accept(e) /\ ~NotifierFails
      \/ Requests_read_gone(e)
      \/ Requests_write_live(e)
      \/ Requests_write_gone(e)

\* epoll.wait reports descriptor fd, whose stream is at end of file, as
\* readable (level-triggered: it stays readable)
Reports_eof(fd) ==
    /\ fd \in DOMAIN epoll /\ epoll[fd] = "IN" /\ hup[fd]
    /\ Requests_wait /\ ~NotifierFails
    /\ EpollEvent(fd) \in events'

\* requests() keeps being called and every call runs to its return; the
\* wait keeps reporting a descriptor registered for writable events and a
\* readable descriptor whose stream is at end of file
Progress_gone ==
    /\ WF_vars(Requests_wait /\ ~NotifierFails)
    /\ WF_vars(Dispatch_gone)
    /\ WF_vars(Requests_sweep)
    /\ \A fd \in Fds : SF_vars(Reports(fd) /\ ~NotifierFails)
    /\ \A fd \in Fds : SF_vars(Reports_eof(fd))

SpecGone == Init /\ [][Next_gone]_vars /\ Progress_gone

\* the application keeps calling requests(), every call runs to its return,
\* and a stream the server has bytes for is writable again and again: the
\* notifier is level-triggered, so the wait reports a writable descriptor
\* registered for writable events
Progress ==
    /\ WF_vars(Requests_wait)
    /\ WF_vars(Dispatch)
    /\ WF_vars(Requests_sweep)
    /\ \A fd \in Fds : SF_vars(Reports(fd))

\* the server and its application where no system call fails, requests()
\* keeps being called and the streams keep accepting bytes
SpecLive == Init_stale /\ [][Next]_vars /\ Progress

---------------------------------------------------------------------------
(* The parser of HttpConnection, byte by byte.  A byte is a one-character  *)
(* string: "G" is what a well-formed request line holds, "c" a header line *)
(* `Content-Length: 1`, "e" a header line `Expect: 100-continue`, "b" a    *)
(* body byte; any other byte makes its line malformed.                     *)

\* the requests a peer may send: "get" has no body, "patch" a body of one
\* byte, "expect" a body and `Expect: 100-continue`; "badline" has a
\* malformed request line, "badheader" a malformed header line
RequestKinds == {"get", "patch", "expect", "badline", "badheader"}

RequestBytes(kind) ==
    CASE kind = "get" -> <<"G", "\r", "\n", "\r", "\n">>
      [] kind = "patch" -> <<"G", "\r", "\n", "c", "\r", "\n", "\r", "\n", "b">>
      [] kind = "expect" ->
           <<"G", "\r", "\n", "c", "\r", "\n", "e", "\r", "\n", "\r", "\n", "b">>
      [] kind = "badline" -> <<"X", "\r", "\n">>
      [] kind = "badheader" -> <<"G", "\r", "\n", "?", "\r", "\n", "\r", "\n">>

\* the Request the parser is to build from a well-formed request
RequestOf(kind) ==
    CASE kind = "get" -> Request("GET", FALSE, FALSE)
      [] kind = "patch" -> Request("PATCH", FALSE, TRUE)
      [] kind = "expect" -> Request("PATCH", TRUE, TRUE)

\* a stream carries at most MaxPipelined requests
MaxPipelined == 3

RECURSIVE StreamBytes(_)
StreamBytes(kinds) ==
    IF kinds = <<>> THEN <<>>
    ELSE RequestBytes(Head(kinds)) \o StreamBytes(Tail(kinds))

Streams ==
    UNION {[1..n -> RequestKinds] : n \in 1..MaxPipelined}

\* position of the first CRLF of buf at or after p, 0 when there is none
FindCRLF(buf, p) ==
    LET at == {i \in p..(Len(buf) - 1) : buf[i] = "\r" /\ buf[i + 1] = "\n"}
    IN IF at = {} THEN 0 ELSE CHOOSE i \in at : \A j \in at : i <= j

\* the header lines of buf from position p up to the empty line that ends
\* the block; next is the position after the block, 0 while it is incomplete
RECURSIVE HeaderBlock(_, _, _)
HeaderBlock(buf, p, lines) ==
    LET k == FindCRLF(buf, p) IN
    IF k = 0 THEN [next |-> 0, lines |-> lines]
    ELSE IF k = p THEN [next |-> k + 2, lines |-> lines]
    ELSE HeaderBlock(buf, k + 2, Append(lines, SubSeq(buf, p, k - 1)))

\* the parser that forgets an incomplete request at the end of a read
RECURSIVE HttpConnection_scan_Forgetful(_, _)
HttpConnection_scan_Forgetful(buf, pending) ==
    IF pending # "none"
    THEN IF buf = <<>> THEN [tokens |-> <<>>, rest |-> <<>>]
         ELSE LET r == HttpConnection_scan_Forgetful(Tail(buf), "none")
              IN [tokens |-> <<"BODY">> \o r.tokens, rest |-> r.rest]
    ELSE
      LET i == FindCRLF(buf, 1) IN
      IF i = 0 THEN [tokens |-> <<>>, rest |-> <<>>]
      ELSE IF SubSeq(buf, 1, i - 1) # <<"G">>
      THEN [tokens |-> <<"BAD">>, rest |-> <<>>]
      ELSE
        LET hb == HeaderBlock(buf, i + 2, <<>>) IN
        IF hb.next = 0 THEN [tokens |-> <<>>, rest |-> <<>>]
        ELSE IF \E n \in 1..Len(hb.lines) : hb.lines[n] \notin {<<"c">>, <<"e">>}
        THEN [tokens |-> <<"BAD">>, rest |-> <<>>]
        ELSE
          LET body == \E n \in 1..Len(hb.lines) : hb.lines[n] = <<"c">>
              expect == \E n \in 1..Len(hb.lines) : hb.lines[n] = <<"e">>
              tok == IF ~body THEN "REQ"
                     ELSE IF expect THEN "HEAD_EXPECT" ELSE "HEAD"
              r == HttpConnection_scan_Forgetful(
                     SubSeq(buf, hb.next, Len(buf)),
                     IF body THEN tok ELSE "none")
          IN [tokens |-> <<tok>> \o r.tokens, rest |-> r.rest]

\* the parser that stops after the first request of a read
HttpConnection_scan_OnePerRead(buf, pending) ==
    IF pending # "none"
    THEN IF buf = <<>> THEN [tokens |-> <<>>, rest |-> buf]
         ELSE [tokens |-> <<"BODY">>, rest |-> Tail(buf)]
    ELSE
      LET i == FindCRLF(buf, 1) IN
      IF i = 0 THEN [tokens |-> <<>>, rest |-> buf]
      ELSE IF SubSeq(buf, 1, i - 1) # <<"G">>
      THEN [tokens |-> <<"BAD">>, rest |-> <<>>]
      ELSE
        LET hb == HeaderBlock(buf, i + 2, <<>>) IN
        IF hb.next = 0 THEN [tokens |-> <<>>, rest |-> buf]
        ELSE IF \E n \in 1..Len(hb.lines) : hb.lines[n] \notin {<<"c">>, <<"e">>}
        THEN [tokens |-> <<"BAD">>, rest |-> <<>>]
        ELSE
          LET body == \E n \in 1..Len(hb.lines) : hb.lines[n] = <<"c">>
              expect == \E n \in 1..Len(hb.lines) : hb.lines[n] = <<"e">>
              tok == IF ~body THEN "REQ"
                     ELSE IF expect THEN "HEAD_EXPECT" ELSE "HEAD"
              after == SubSeq(buf, hb.next, Len(buf))
          IN IF body /\ after # <<>>
             THEN [tokens |-> <<tok, "BODY">>, rest |-> Tail(after)]
             ELSE [tokens |-> <<tok>>, rest |-> after]

\* the parser over the read buffer (spec 4.B): the tokens of the requests
\* that are complete in buf, and the bytes it leaves in the buffer.  The
\* request line is examined when its CRLF is there, the header lines when
\* the empty line that ends the block is there, and a body is awaited once
\* the block announces it; an incomplete request stays in the buffer.
RECURSIVE HttpConnection_scan(_, _)
HttpConnection_scan(buf, pending) ==
    IF pending # "none"
    THEN IF buf = <<>> THEN [tokens |-> <<>>, rest |-> buf]
         ELSE LET r == HttpConnection_scan(Tail(buf), "none")
              IN [tokens |-> <<"BODY">> \o r.tokens, rest |-> r.rest]
    ELSE
      LET i == FindCRLF(buf, 1) IN
      IF i = 0 THEN [tokens |-> <<>>, rest |-> buf]
      ELSE IF SubSeq(buf, 1, i - 1) # <<"G">>
      THEN [tokens |-> <<"BAD">>, rest |-> <<>>]
      ELSE
        LET hb == HeaderBlock(buf, i + 2, <<>>) IN
        IF hb.next = 0 THEN [tokens |-> <<>>, rest |-> buf]
        ELSE IF \E n \in 1..Len(hb.lines) : hb.lines[n] \notin {<<"c">>, <<"e">>}
        THEN [tokens |-> <<"BAD">>, rest |-> <<>>]
        ELSE
          LET body == \E n \in 1..Len(hb.lines) : hb.lines[n] = <<"c">>
              expect == \E n \in 1..Len(hb.lines) : hb.lines[n] = <<"e">>
              tok == IF ~body THEN "REQ"
                     ELSE IF expect THEN "HEAD_EXPECT" ELSE "HEAD"
              r == HttpConnection_scan(
                     SubSeq(buf, hb.next, Len(buf)),
                     IF body THEN tok ELSE "none")
          IN [tokens |-> <<tok>> \o r.tokens, rest |-> r.rest]

\* try_read() on bytes: append them to the read buffer and parse the buffer
HttpConnection_try_read_bytes(h, buffer, bytes) ==
    LET sc == HttpConnection_scan(buffer \o bytes, h.pending)
    IN [io |-> [kind |-> "data", data |-> sc.tokens], buffer |-> sc.rest]

\* the whole of `bytes` in one read of a new connection: the requests the
\* parser puts on its queue, and the result of try_read()
SingleRead(bytes) ==
    LET b == HttpConnection_try_read_bytes(HttpConnection_new, <<>>, bytes)
        tr == HttpConnection_try_read(HttpConnection_new, b.io)
    IN [parsed |-> PopAll(tr.connection, <<>>).requests, result |-> tr.result]

\* one connection and a stream of requests, of which nothing has arrived
Init_parser ==
    /\ started = TRUE
    /\ connections = (1 :> ClientConnection_new(HttpConnection_new))
    /\ epoll = (ListenerFd :> "IN") @@ (1 :> "IN")
    /\ pc = "parser"
    /\ events = {}
    /\ parsed_requests = <<>>
    /\ result = Ok
    /\ hup = [fd \in Fds |-> FALSE]
    /\ rejected = <<>>
    /\ owed = [fd \in Fds |-> 0]
    /\ reaped = {}
    /\ credit = [fd \in Fds |-> 0]
    /\ faults = MaxFaults
    /\ fifo = [fd \in Fds |-> <<>>]
    /\ wire_ok = TRUE
    /\ held = [fd \in Fds |-> "none"]
    /\ \E kinds \in Streams :
         wire = [kinds |-> kinds,        \* the requests of the stream
                 sent |-> 0,             \* bytes that have arrived
                 buffer |-> <<>>,        \* the read buffer of the connection
                 parsed |-> <<>>,        \* requests the parser has queued
                 result |-> "Ok",        \* result of the last try_read()
                 last |-> <<>>,          \* requests the last read() returned
                 bytewise |-> TRUE]      \* every read so far was of one byte

\* a readable event: the next n bytes of the stream arrive in one read
Parser_read(n) ==
    /\ pc = "parser"
    /\ connections[1].state = "AwaitingIncoming"
    /\ wire.result = "Ok"
    /\ wire.sent + n <= Len(StreamBytes(wire.kinds))
    /\ LET bytes == SubSeq(StreamBytes(wire.kinds), wire.sent + 1, wire.sent + n)
           b == HttpConnection_try_read_bytes(connections[1].connection,
                                              wire.buffer, bytes)
           tr == HttpConnection_try_read(connections[1].connection, b.io)
           r == ClientConnection_read(connections[1], b.io)
       IN /\ connections' = [connections EXCEPT ![1] = r.conn]
          /\ epoll' = IF r.conn.state = "AwaitingOutgoing"
                      THEN HttpServer_epoll_mod(epoll, 1, "OUT") ELSE epoll
          /\ fifo' = [fifo EXCEPT ![1] = @ \o ReadObligation(b.io)]
          /\ wire' = [wire EXCEPT
                        !.sent = @ + n,
                        !.buffer = b.buffer,
                        !.parsed = @ \o PopAll(tr.connection, <<>>).requests,
                        !.result = tr.result,
                        !.last = r.requests,
                        !.bytewise = @ /\ n = 1]
    /\ UNCHANGED <<started, pc, events, parsed_requests, result, hup, rejected,
                   owed, reaped, credit, faults, wire_ok, held>>

\* a writable event: the stream takes the whole backlog
Parser_write ==
    /\ pc = "parser"
    /\ connections[1].state = "AwaitingOutgoing"
    /\ LET io == [kind |-> "accept",
                  n |-> Len(Remaining(connections[1].connection))]
           r == ClientConnection_write(connections[1], io)
       IN /\ connections' = [connections EXCEPT ![1] = r.conn]
          /\ epoll' = IF r.conn.state = "AwaitingIncoming"
                      THEN HttpServer_epoll_mod(epoll, 1, "IN") ELSE epoll
          /\ wire_ok' = (wire_ok /\ IsPrefix(r.written, fifo[1]))
          /\ fifo' = [fifo EXCEPT ![1] = SubSeq(@, Len(r.written) + 1, Len(@))]
    /\ UNCHANGED <<started, pc, events, parsed_requests, result, hup, rejected,
                   owed, reaped, credit, faults, held, wire>>

\* a read takes at most a whole stream
MaxChunk == MaxPipelined * Len(RequestBytes("expect"))

Next_parser ==
    \/ \E n \in 1..MaxChunk : Parser_read(n)
    \/ Parser_write

SpecParser == Init_parser /\ [][Next_parser]_vars

---------------------------------------------------------------------------
(* Response::receive: response.rs:219-270, over the bytes Response::send   *)
(* writes.  The input is the sequence of the chunks its reads return.      *)

\* find(): offset of the first occurrence of sequence in bytes, -1 for None
Find(bytes, sequence) ==
    LET at == {i \in 0..(Len(bytes) - Len(sequence)) :
                 SubSeq(bytes, i + 1, i + Len(sequence)) = sequence}
    IN IF at = {} THEN -1 ELSE CHOOSE i \in at : \A j \in at : i <= j

Versions == {"Http10", "Http11"}
StatusCodes == {"Continue", "OK", "NoContent", "BadRequest", "NotFound",
                "InternalServerError", "NotImplemented"}

\* the range of content_length, an i32 (headers.rs:75)
I32_MAX == 2147483647
I32_MIN == -I32_MAX - 1

\* the character of s at position i (from 1)
CharAt(s, i) == SubSeq(s, i, i)

\* position (from 1) of character ch in the string alphabet, 0 when absent
IndexIn(alphabet, ch) ==
    LET at == {i \in 1..Len(alphabet) : CharAt(alphabet, i) = ch}
    IN IF at = {} THEN 0 ELSE CHOOSE i \in at : TRUE

UpperCase == "ABCDEFGHIJKLMNOPQRSTUVWXYZ"
LowerCase == "abcdefghijklmnopqrstuvwxyz"

\* str::to_lowercase on ASCII text
RECURSIVE ToLower(_)
ToLower(s) ==
    IF s = "" THEN ""
    ELSE LET ch == CharAt(s, 1)
             i == IndexIn(UpperCase, ch)
         IN (IF i = 0 THEN ch ELSE CharAt(LowerCase, i))
               \o ToLower(SubSeq(s, 2, Len(s)))

\* str::trim on ASCII text: the white space at both ends is dropped
IsSpace(ch) == ch \in {" ", "\t"}
RECURSIVE TrimStart(_)
TrimStart(s) ==
    IF s # "" /\ IsSpace(CharAt(s, 1)) THEN TrimStart(SubSeq(s, 2, Len(s))) ELSE s
RECURSIVE TrimEnd(_)
TrimEnd(s) ==
    IF s # "" /\ IsSpace(CharAt(s, Len(s)))
    THEN TrimEnd(SubSeq(s, 1, Len(s) - 1)) ELSE s
Trim(s) == TrimEnd(TrimStart(s))

\* the digits of str::parse::<i32>, accumulated with checked arithmetic:
\* upwards after no sign or `+`, downwards after `-`
RECURSIVE ParseDigits(_, _, _)
ParseDigits(s, acc, positive) ==
    IF s = "" THEN [ok |-> TRUE, value |-> acc]
    ELSE LET d == IndexIn("0123456789", CharAt(s, 1)) - 1
             rest == SubSeq(s, 2, Len(s))
         IN IF d < 0 THEN [ok |-> FALSE, value |-> 0]
            ELSE IF positive
            THEN IF acc > (I32_MAX - d) \div 10 THEN [ok |-> FALSE, value |-> 0]
                 ELSE ParseDigits(rest, acc * 10 + d, positive)
            ELSE IF acc < (I32_MIN + d + 9) \div 10 THEN [ok |-> FALSE, value |-> 0]
                 ELSE ParseDigits(rest, acc * 10 - d, positive)

\* str::parse::<i32>: an optional sign and at least one decimal digit, the
\* value within the range of i32
ParseI32(s) ==
    IF s = "" \/ s \in {"+", "-"} THEN [ok |-> FALSE, value |-> 0]
    ELSE IF CharAt(s, 1) = "-" THEN ParseDigits(SubSeq(s, 2, Len(s)), 0, FALSE)
    ELSE IF CharAt(s, 1) = "+" THEN ParseDigits(SubSeq(s, 2, Len(s)), 0, TRUE)
    ELSE ParseDigits(s, 0, TRUE)

\* StatusLine::try_from (with parse_status_line)
StatusLine_try_from(status_line) ==
    LET version_end == Find(status_line, SP)
        version == IF version_end < 0 THEN "" ELSE SubSeq(status_line, 1, version_end)
        code_and_message == IF version_end < 0 THEN ""
                            ELSE SubSeq(status_line, version_end + 2, Len(status_line))
        code_end == Find(code_and_message, SP)
        code == IF code_end < 0 THEN code_and_message
                ELSE SubSeq(code_and_message, 1, code_end)
    IN IF /\ \E v \in Versions : Version_raw(v) = version
          /\ \E s \in StatusCodes : StatusCode_raw(s) = code
       THEN [ok |-> TRUE,
             status_line |->
               [http_version |-> CHOOSE v \in Versions : Version_raw(v) = version,
                status_code |-> CHOOSE s \in StatusCodes : StatusCode_raw(s) = code]]
       ELSE [ok |-> FALSE]

\* Headers::parse_header_line
Headers_parse_header_line(headers, header_line) ==
    LET sep == Find(header_line, ": ")
        name == IF sep < 0 THEN "" ELSE SubSeq(header_line, 1, sep)
        value == IF sep < 0 THEN "" ELSE SubSeq(header_line, sep + 3, Len(header_line))
    IN IF sep < 0 \/ Find(value, ": ") >= 0 THEN [ok |-> FALSE]
       ELSE IF ToLower(name) = "content-length"
       THEN IF ~ParseI32(Trim(value)).ok THEN [ok |-> FALSE]
            ELSE [ok |-> TRUE,
                  headers |-> [headers EXCEPT
                                 !.content_length = ParseI32(Trim(value)).value]]
       ELSE [ok |-> TRUE,
             headers |-> [headers EXCEPT !.map = (name :> value) @@ @]]

\* Headers::try_from: the lines up to the first empty one
RECURSIVE Headers_try_from_lines(_, _)
Headers_try_from_lines(text, headers) ==
    LET e == Find(text, CR_LF)
        line == IF e < 0 THEN text ELSE SubSeq(text, 1, e)
        rest == IF e < 0 THEN "" ELSE SubSeq(text, e + 3, Len(text))
    IN IF line = "" THEN [ok |-> TRUE, headers |-> headers]
       ELSE LET p == Headers_parse_header_line(headers, line)
            IN IF ~p.ok THEN [ok |-> FALSE]
               ELSE Headers_try_from_lines(rest, p.headers)

Headers_try_from(bytes) == Headers_try_from_lines(bytes, Headers_default)

\* Read::read_exact into a slice of `len` bytes: the bytes it reads from the
\* chunks that are left, "" also when len is 0, and whether it fails at the
\* end of the input
RECURSIVE Read_exact(_, _)
Read_exact(input, len) ==
    IF len = 0 THEN [ok |-> TRUE, bytes |-> ""]
    ELSE IF input = <<>> THEN [ok |-> FALSE, bytes |-> ""]
    ELSE IF Len(Head(input)) >= len
    THEN [ok |-> TRUE, bytes |-> SubSeq(Head(input), 1, len)]
    ELSE LET r == Read_exact(Tail(input), len - Len(Head(input)))
         IN [ok |-> r.ok, bytes |-> Head(input) \o r.bytes]

\* Response::receive.  One read fills buf; the status line and the header
\* block must be in it.  `body` is a Vec with capacity bytes_left and, after
\* write_all, length buffered_body_len, so the slice
\* body[buffered_body_len..] that read_exact is given is empty.
Response_receive(input) ==
    IF input = <<>> THEN [ok |-> FALSE, err |-> "InvalidResponse"]
    ELSE
      LET buf == Head(input)
          status_end == Find(buf, CR_LF)
          headers_and_body == SubSeq(buf, status_end + 3, Len(buf))
          headers_end == Find(headers_and_body, CR_LF \o CR_LF)
      IN IF status_end < 0 \/ headers_end < 0
         THEN [ok |-> FALSE, err |-> "InvalidResponse"]
         ELSE
           LET sl == StatusLine_try_from(SubSeq(buf, 1, status_end))
               hd == Headers_try_from(SubSeq(headers_and_body, 1, headers_end))
           IN IF ~sl.ok THEN [ok |-> FALSE, err |-> "InvalidResponse"]
              ELSE IF ~hd.ok THEN [ok |-> FALSE, err |-> "InvalidHeader"]
              ELSE
                LET response == [status_line |-> sl.status_line,
                                 headers |-> hd.headers,
                                 body |-> None]
                IN IF hd.headers.content_length # 0
                   THEN LET body_bytes == SubSeq(headers_and_body, headers_end + 5,
                                                 Len(headers_and_body))
                            bytes_left == hd.headers.content_length - Len(body_bytes)
                            buffered_body_len == Len(body_bytes)
                            more == IF bytes_left > 0
                                    THEN Read_exact(Tail(input),
                                                    Len(body_bytes) - buffered_body_len)
                                    ELSE [ok |-> TRUE, bytes |-> ""]
                        IN IF ~more.ok THEN [ok |-> FALSE, err |-> "IOError"]
                           ELSE [ok |-> TRUE,
                                 response |-> Response_with_body(
                                                response, body_bytes \o more.bytes)]
                   ELSE [ok |-> TRUE, response |-> response]

\* the bytes of one response as one string
RECURSIVE Concat(_)
Concat(segments) ==
    IF segments = <<>> THEN "" ELSE Head(segments) \o Concat(Tail(segments))

\* the bodies an application gives its responses
Bodies == {"", "b", "body", "response body"}

\* the responses whose round trip is followed
Responses ==
    {Response_new(v, s) : v \in Versions, s \in {"OK", "NotFound"}}
      \cup {Response_with_body(Response_new(v, s), b) :
              v \in Versions, s \in {"OK", "NotFound"}, b \in Bodies}

\* the ways a stream may deliver `bytes`: in one read, or cut in two
Deliveries(bytes) ==
    {<<bytes>>} \cup
    {<<SubSeq(bytes, 1, n), SubSeq(bytes, n + 1, Len(bytes))>> :
       n \in 1..(Len(bytes) - 1)}

\* a client, a response that send() has written, and the reads to come
Init_receive ==
    /\ started = FALSE
    /\ connections = <<>>
    /\ epoll = <<>>
    /\ pc = "client"
    /\ events = {}
    /\ parsed_requests = <<>>
    /\ result = Ok
    /\ hup = [fd \in Fds |-> FALSE]
    /\ rejected = <<>>
    /\ owed = [fd \in Fds |-> 0]
    /\ reaped = {}
    /\ credit = [fd \in Fds |-> 0]
    /\ faults = MaxFaults
    /\ fifo = [fd \in Fds |-> <<>>]
    /\ wire_ok = TRUE
    /\ held = [fd \in Fds |-> "none"]
    /\ \E r \in Responses :
       \E input \in Deliveries(Concat(Response_send(r))) :
         wire = [response |-> r, input |-> input,
                 received |-> [ok |-> FALSE, err |-> "none"]]

\* the client calls Response::receive on the stream
Client_receive ==
    /\ pc = "client"
    /\ pc' = "received"
    /\ wire' = [wire EXCEPT !.received = Response_receive(wire.input)]
    /\ UNCHANGED <<started, connections, epoll, events, parsed_requests, result,
                   hup, rejected, owed, reaped, credit, faults, fifo, wire_ok,
                   held>>

Next_receive == Client_receive

SpecReceive == Init_receive /\ [][Next_receive]_vars

---------------------------------------------------------------------------
(* Request::try_from and Headers::try_from on the bytes of one request:    *)
(* request.rs:86-131, 203-272, common/headers.rs:100-178.                  *)

\* Method::try_from
Method_try_from(bytes) == bytes \in {"GET", "PUT", "PATCH"}

\* RequestLine::try_from (with parse_request_line)
RequestLine_try_from(request_line) ==
    LET method_end == Find(request_line, SP)
        method == IF method_end < 0 THEN "" ELSE SubSeq(request_line, 1, method_end)
        uri_and_version == IF method_end < 0 THEN ""
                           ELSE SubSeq(request_line, method_end + 2, Len(request_line))
        uri_end == Find(uri_and_version, SP)
        uri == IF uri_end < 0 THEN uri_and_version
               ELSE SubSeq(uri_and_version, 1, uri_end)
        version == IF uri_end < 0 THEN ""
                   ELSE SubSeq(uri_and_version, uri_end + 2, Len(uri_and_version))
    IN IF ~Method_try_from(method) THEN [ok |-> FALSE, err |-> "InvalidHttpMethod"]
       ELSE IF uri = "" THEN [ok |-> FALSE, err |-> "InvalidUri"]
       ELSE IF \A v \in Versions : Version_raw(v) # version
       THEN [ok |-> FALSE, err |-> "InvalidHttpVersion"]
       ELSE [ok |-> TRUE,
             request_line |->
               [method |-> method, uri |-> uri,
                http_version |-> CHOOSE v \in Versions : Version_raw(v) = version]]

\* RequestLine::min_len
RequestLine_min_len == Len("GET") + 1 + Len(Version_raw("Http10")) + 2

\* Headers::header_line: the value the map holds under exactly `key`
Headers_header_line(headers, key) ==
    IF key \in DOMAIN headers.map
    THEN [is_some |-> TRUE, value |-> headers.map[key]]
    ELSE [is_some |-> FALSE, value |-> ""]

\* Request::try_from.  `content_length as usize` of a negative i32 is
\* larger than the length of any buffer.
Request_try_from(byte_stream) ==
    LET request_line_end == Find(byte_stream, CR_LF)
        request_line_bytes == SubSeq(byte_stream, 1, request_line_end)
        rl == RequestLine_try_from(request_line_bytes)
        after_line == SubSeq(byte_stream, request_line_end + 1, Len(byte_stream))
        found == Find(after_line, CR_LF \o CR_LF)
        headers_and_body == SubSeq(byte_stream, request_line_end + 3, Len(byte_stream))
        headers_end == found - 2
        hd == Headers_try_from(SubSeq(headers_and_body, 1, headers_end))
        body_as_bytes == SubSeq(headers_and_body, headers_end + 5,
                                Len(headers_and_body))
    IN IF request_line_end < 0 THEN [ok |-> FALSE, err |-> "InvalidRequest"]
       ELSE IF Len(request_line_bytes) < RequestLine_min_len
       THEN [ok |-> FALSE, err |-> "InvalidRequest"]
       ELSE IF ~rl.ok THEN [ok |-> FALSE, err |-> rl.err]
       ELSE IF found < 0 THEN [ok |-> FALSE, err |-> "InvalidRequest"]
       ELSE IF found = 0
       THEN [ok |-> TRUE, request_line |-> rl.request_line,
             headers |-> Headers_default, body |-> None]
       ELSE IF ~hd.ok THEN [ok |-> FALSE, err |-> "InvalidHeader"]
       ELSE IF hd.headers.content_length = 0
       THEN [ok |-> TRUE, request_line |-> rl.request_line,
             headers |-> hd.headers, body |-> None]
       ELSE IF \/ hd.headers.content_length < 0
               \/ Len(body_as_bytes) # hd.headers.content_length
       THEN [ok |-> FALSE, err |-> "InvalidRequest"]
       ELSE [ok |-> TRUE, request_line |-> rl.request_line,
             headers |-> hd.headers, body |-> Body_new(body_as_bytes)]

\* the header lines a peer may send
HeaderLines ==
    {"Content-Length: 13", "content-length: 13", "CONTENT-LENGTH: 13",
     "Content-Length: 0", "Content-Length: +13", "Content-Length:  13 ",
     "Content-Length: -5", "Content-Length: -2147483648",
     "Content-Length: 2147483647", "Content-Length: 2147483648",
     "Content-Length: abc", "Content-Length: ", "Content-Length:13",
     "Transfer-Encoding: chunked", "Transfer-Encoding: identity",
     "transfer-encoding: gzip",
     "Expect: 100-continue", "expect: 100-continue", "Expect: 103-checkpoint",
     "Content-Type: text/plain", "content-type: application/json",
     "Server: Firecracker API"}

\* most header lines of one request
MaxHeaderLines == 2

\* the header blocks of 1..n lines
RECURSIVE HeaderBlocks(_)
HeaderBlocks(n) ==
    IF n = 0 THEN {<<>>}
    ELSE {<<l>> : l \in HeaderLines} \cup
         {<<l>> \o b : l \in HeaderLines, b \in HeaderBlocks(n - 1) \ {<<>>}}

\* the lines of a block, each ended by CRLF
RECURSIVE JoinLines(_)
JoinLines(lines) ==
    IF lines = <<>> THEN "" ELSE Head(lines) \o CR_LF \o JoinLines(Tail(lines))

\* the bodies a peer may send after the header block
RequestBodies == {"", "whatever body"}

\* the bytes of a request with the header block `lines` and body `body`
RequestText(lines, body) ==
    "GET / HTTP/1.1" \o CR_LF \o JoinLines(lines) \o CR_LF \o body

\* name and value of a header line as the peer wrote them
LineName(line) ==
    IF Find(line, ":") < 0 THEN line ELSE SubSeq(line, 1, Find(line, ":"))
LineValue(line) ==
    IF Find(line, ":") < 0 THEN ""
    ELSE Trim(SubSeq(line, Find(line, ":") + 2, Len(line)))

\* one request on the wire, not parsed yet
Init_headers ==
    /\ started = FALSE
    /\ connections = <<>>
    /\ epoll = <<>>
    /\ pc = "bytes"
    /\ events = {}
    /\ parsed_requests = <<>>
    /\ result = Ok
    /\ hup = [fd \in Fds |-> FALSE]
    /\ rejected = <<>>
    /\ owed = [fd \in Fds |-> 0]
    /\ reaped = {}
    /\ credit = [fd \in Fds |-> 0]
    /\ faults = MaxFaults
    /\ fifo = [fd \in Fds |-> <<>>]
    /\ wire_ok = TRUE
    /\ held = [fd \in Fds |-> "none"]
    /\ \E lines \in HeaderBlocks(MaxHeaderLines), body \in RequestBodies :
         wire = [lines |-> lines, body |-> body,
                 headers |-> [ok |-> FALSE],
                 request |-> [ok |-> FALSE, err |-> "none"]]

\* the header block is parsed by Headers::try_from, and the whole request by
\* Request::try_from
Request_parse ==
    /\ pc = "bytes"
    /\ pc' = "parsed"
    /\ wire' = [wire EXCEPT
                  !.headers = Headers_try_from(JoinLines(wire.lines)),
                  !.request = Request_try_from(RequestText(wire.lines, wire.body))]
    /\ UNCHANGED <<started, connections, epoll, events, parsed_requests, result,
                   hup, rejected, owed, reaped, credit, faults, fifo, wire_ok,
                   held>>

Next_headers == Request_parse

SpecHeaders == Init_headers /\ [][Next_headers]_vars

---------------------------------------------------------------------------
(* Response::send on a response that an application builds with            *)
(* with_header and with_body: response.rs:147-202.                         *)

\* the headers an application may give a response
AppHeaders ==
    {<<"Server", "Firecracker API">>, <<"Content-Type", "text/plain">>,
     <<"Content-Length", "5">>}

\* most calls of with_header and with_body on one response
MaxCalls == 3

\* Response::new
Init_send ==
    /\ started = FALSE
    /\ connections = <<>>
    /\ epoll = <<>>
    /\ pc = "build"
    /\ events = {}
    /\ parsed_requests = <<>>
    /\ result = Ok
    /\ hup = [fd \in Fds |-> FALSE]
    /\ rejected = <<>>
    /\ owed = [fd \in Fds |-> 0]
    /\ reaped = {}
    /\ credit = [fd \in Fds |-> 0]
    /\ faults = MaxFaults
    /\ fifo = [fd \in Fds |-> <<>>]
    /\ wire_ok = TRUE
    /\ held = [fd \in Fds |-> "none"]
    /\ \E v \in Versions, s \in {"OK", "NotFound"} :
         wire = [response |-> Response_new(v, s), calls |-> 0, sent |-> <<>>]

Build_with_header(key, value) ==
    /\ pc = "build" /\ wire.calls < MaxCalls
    /\ wire' = [wire EXCEPT !.response = Response_with_header(@, key, value),
                            !.calls = @ + 1]
    /\ UNCHANGED <<started, connections, epoll, pc, events, parsed_requests,
                   result, hup, rejected, owed, reaped, credit, faults, fifo,
                   wire_ok, held>>

Build_with_body(bytes) ==
    /\ pc = "build" /\ wire.calls < MaxCalls
    /\ wire' = [wire EXCEPT !.response = Response_with_body(@, bytes),
                            !.calls = @ + 1]
    /\ UNCHANGED <<started, connections, epoll, pc, events, parsed_requests,
                   result, hup, rejected, owed, reaped, credit, faults, fifo,
                   wire_ok, held>>

\* send(): the map is visited in any order
Build_send ==
    /\ pc = "build"
    /\ pc' = "sent"
    /\ \E order \in Orders(wire.response.headers.map) :
         wire' = [wire EXCEPT !.sent = Response_send_in(wire.response, order)]
    /\ UNCHANGED <<started, connections, epoll, events, parsed_requests, result,
                   hup, rejected, owed, reaped, credit, faults, fifo, wire_ok,
                   held>>

Next_send ==
    \/ \E h \in AppHeaders : Build_with_header(h[1], h[2])
    \/ \E bytes \in Bodies : Build_with_body(bytes)
    \/ Build_send

SpecSend == Init_send /\ [][Next_send]_vars

---------------------------------------------------------------------------
(* Properties                                                              *)

\* C1: between public calls, the in_flight_response_count of every
\* connection in the map equals the number of requests requests() returned
\* for it minus the number of respond() calls made for it.
C1_InFlightIsReturnedMinusResponded ==
    pc = "idle" =>
      \A fd \in DOMAIN connections :
        connections[fd].in_flight_response_count = owed[fd]

\* C2: a step removes a connection from the map only if, before the step,
\* it is Closed, has no pending write and has in_flight_response_count 0;
\* no request returned for it is then unanswered.
C2_RemovedOnlyWhenDone ==
    [][\A fd \in DOMAIN connections :
         fd \notin DOMAIN connections' =>
           /\ connections[fd].state = "Closed"
           /\ ~HttpConnection_pending_write(connections[fd].connection)
           /\ connections[fd].in_flight_response_count = 0
           /\ owed[fd] + CountId(parsed_requests, fd) = 0]_vars

\* a sweep removed one connection and kept another that is Closed with a
\* request still unanswered
C2_Witness ==
    /\ reaped # {}
    /\ \E fd \in DOMAIN connections :
         /\ connections[fd].state = "Closed"
         /\ connections[fd].in_flight_response_count > 0
         /\ owed[fd] > 0

\* C3: the map never holds more than MAX_CONNECTIONS connections.
C3_AtMostMaxConnections ==
    Cardinality(DOMAIN connections) <= MAX_CONNECTIONS

\* the map is full and a further stream has been turned away
C3_Witness ==
    /\ Cardinality(DOMAIN connections) = MAX_CONNECTIONS
    /\ rejected # <<>>

\* C4: a listener event handled while the map holds MAX_CONNECTIONS
\* connections, whose accept and write succeed, gives the new stream the
\* 503 message exactly once, inserts and registers nothing, and leaves
\* every connection of the map as it was.
C4_RefusedAtCapacity ==
    [][(/\ pc = "dispatch" /\ pc' = "dispatch"
        /\ Cardinality(DOMAIN connections) = MAX_CONNECTIONS
        /\ EpollEvent(ListenerFd) \in events
        /\ EpollEvent(ListenerFd) \notin events')
       => /\ rejected' = <<SERVER_FULL_ERROR_MESSAGE>>
          /\ Len(SERVER_FULL_ERROR_MESSAGE) = 120
          /\ connections' = connections
          /\ epoll' = epoll
          /\ fifo' = fifo
          /\ parsed_requests' = parsed_requests]_vars

\* a stream was refused while a connection of the full map was waiting to
\* write and requests of this batch were already collected
C4_Witness ==
    /\ pc = "dispatch"
    /\ rejected = <<SERVER_FULL_ERROR_MESSAGE>>
    /\ Cardinality(DOMAIN connections) = MAX_CONNECTIONS
    /\ parsed_requests # <<>>
    /\ \E fd \in DOMAIN connections : connections[fd].state = "AwaitingOutgoing"

C7_RespondToClosed ==
    [][\A id \in DOMAIN connections :
         (/\ pc = "idle"
          /\ connections[id].state = "Closed"
          /\ owed'[id] = owed[id] - 1)
         => /\ connections' =
                 [connections EXCEPT ![id].in_flight_response_count = @ - 1]
            /\ fifo' = fifo
            /\ epoll' = epoll
            /\ result' = Ok]_vars

\* between calls, a Closed connection whose last unanswered request has
\* just been answered
C7_Witness ==
    /\ pc = "idle"
    /\ result = Ok
    /\ \E fd \in DOMAIN connections :
         /\ connections[fd].state = "Closed"
         /\ connections[fd].in_flight_response_count = 0
         /\ connections[fd].connection.response_queue = <<>>

\* C8: a read that meets end of file sets the state to Closed and changes
\* nothing else of the connection: in_flight_response_count and the FIFO
\* stay; it yields no request and requests() goes on without an error.
C8_ReadAtEndOfFile ==
    [][/\ \A fd \in DOMAIN connections :
            ClientConnection_read(connections[fd], [kind |-> "eof"])
              = [conn |-> [connections[fd] EXCEPT !.state = "Closed"],
                 requests |-> <<>>]
       /\ \A fd \in DOMAIN connections :
            (~hup[fd] /\ hup'[fd])
            => /\ connections' = [connections EXCEPT ![fd].state = "Closed"]
               /\ parsed_requests' = parsed_requests
               /\ fifo' = fifo
               /\ epoll' = epoll
               /\ pc' = "dispatch"]_vars

\* with no failed system call: a stream at end of file whose connection is
\* Closed and kept, with a request unanswered
C8_Witness ==
    /\ faults = 0
    /\ \E fd \in DOMAIN connections :
         /\ hup[fd]
         /\ connections[fd].state = "Closed"
         /\ connections[fd].in_flight_response_count > 0
         /\ owed[fd] > 0

\* the 400 response of a header line that does not parse
BadRequestBlob ==
    <<"HTTP/1.1 400\r\nContent-Length: 80\r\n\r\n",
      "{ \"error\": \"Invalid header.\nAll previous unanswered requests will be dropped.\" }">>

\* the responses of a FIFO that are that 400 response
BadRequests(q) == Cardinality({i \in 1..Len(q) : q[i] = BadRequestBlob})

\* C9: a read that meets a parse error leaves no parsed request on the
\* connection, adds no request to those requests() returns, leaves
\* in_flight_response_count as it is, enqueues at the tail exactly one 400
\* response with the documented body, and sets the state to
\* AwaitingOutgoing.
C9_ParseError ==
    [][\A fd \in DOMAIN connections :
         (/\ pc = "dispatch"
          /\ Len(fifo'[fd]) > Len(fifo[fd])
          /\ fifo'[fd][Len(fifo'[fd])] = BadRequestBlob[2])
         => LET c == connections[fd]
                d == connections'[fd]
            IN /\ d.connection.parsed_requests = <<>>
               /\ CountId(parsed_requests', fd) <= CountId(parsed_requests, fd)
               /\ d.in_flight_response_count = c.in_flight_response_count
               /\ d.connection.response_queue # <<>>
               /\ d.connection.response_queue[Len(d.connection.response_queue)]
                    = BadRequestBlob
               /\ BadRequests(d.connection.response_queue)
                    = BadRequests(c.connection.response_queue) + 1
               /\ d.state = "AwaitingOutgoing"]_vars

\* a connection with a request unanswered whose FIFO ends with the 400
\* response
C9_Witness ==
    \E fd \in DOMAIN connections :
      /\ connections[fd].connection.response_queue # <<>>
      /\ connections[fd].connection.response_queue[
            Len(connections[fd].connection.response_queue)] = BadRequestBlob
      /\ connections[fd].in_flight_response_count > 0
      /\ connections[fd].state = "AwaitingOutgoing"

\* the failures that are a problem of one client stream
StreamProblems == {"read", "write", "write (refused stream)"}

\* C10: no call returns an Err that reports a problem of one client
\* stream, the stream refused at capacity included.
C10_StreamProblemsAbsorbed ==
    result.cause \notin StreamProblems

C12_OutgoingIffPending ==
    pc = "idle" =>
      \A fd \in DOMAIN connections :
        connections[fd].state = "AwaitingOutgoing"
          <=> HttpConnection_pending_write(connections[fd].connection)


\* C13: every connection of the map has, at every time, exactly one
\* readiness interest registered with epoll: readable or writable, never both
\* and never none.
C13_ExactlyOneInterest ==
    \A fd \in DOMAIN connections :
      /\ fd \in DOMAIN epoll
      /\ epoll[fd] \in {"IN", "OUT"}

\* two connections at once, one waiting for a request and registered for
\* readable events, the other with a backlog and registered for writable ones
C13_Witness ==
    \E fd \in DOMAIN connections, g \in DOMAIN connections :
      /\ epoll[fd] = "IN" /\ epoll[g] = "OUT"
      /\ fifo[fd] = <<>> /\ wire_ok
      /\ connections[fd].state = "AwaitingIncoming"
      /\ owed[fd] = 0 /\ connections[fd].in_flight_response_count = 0
      /\ result.cause = "none" /\ faults = 0
      /\ ~hup[fd]
      /\ connections[g].in_flight_response_count = 0
      /\ connections[g].state = "AwaitingOutgoing"


\* C14: a respond() with the id of a request whose connection has been
\* removed from the map is dropped: it enqueues no bytes on any connection of
\* the map and changes no state and no in_flight_response_count, also when
\* the id is by now the id of a newly accepted connection.
C14_StaleRespondDropped ==
    [][\A id \in Fds :
         (held[id] = "stale" /\ held'[id] = "none")
         => /\ connections' = connections
            /\ fifo' = fifo]_vars


\* C15: while a request returned from a connection is unanswered, the
\* connection stays in the map, so that its id is given to no other
\* connection; and a respond() of an application that responds at most once
\* per request touches the connection of its id and no other.
C15_UnansweredStays ==
    [][\A fd \in Fds :
         owed[fd] > 0
         => /\ fd \in DOMAIN connections
            /\ fd \in DOMAIN connections'
            /\ owed'[fd] < owed[fd]
               => \A g \in DOMAIN connections \ {fd} :
                    /\ g \in DOMAIN connections'
                    /\ connections'[g] = connections[g]
                    /\ fifo'[g] = fifo[g]]_vars

\* a requests() call has ended and kept a connection whose peer is gone and
\* whose request is unanswered, while the other descriptor is in use too
C15_Witness ==
    /\ pc = "idle" /\ result = Ok
    /\ Cardinality(DOMAIN connections) = MAX_CONNECTIONS
    /\ \E fd \in DOMAIN connections :
         /\ owed[fd] > 0
         /\ hup[fd]
         /\ connections[fd].state = "Closed"
         /\ ~HttpConnection_pending_write(connections[fd].connection)


\* C16: however the bytes of a stream are split into reads, down to one byte
\* a read, the parser has queued, when the first n bytes have arrived, the
\* requests that one read of those n bytes queues, with the same result; and
\* while not even the first request is complete it has queued no request and
\* reported no error.
C16_SplitsParseAlike ==
    LET arrived == SubSeq(StreamBytes(wire.kinds), 1, wire.sent)
        whole == SingleRead(arrived)
    IN /\ wire.parsed = whole.parsed
       /\ wire.result = whole.result
       /\ wire.sent < Len(RequestBytes(wire.kinds[1]))
          => wire.parsed = <<>> /\ wire.result = "Ok"

\* a whole stream of three requests, two of them with a body, has arrived
\* one byte a read
C16_Witness ==
    /\ pc = "parser"
    /\ wire.bytewise
    /\ wire.kinds = <<"get", "expect", "patch">>
    /\ wire.sent = Len(StreamBytes(wire.kinds))
    /\ Len(wire.parsed) = 3

\* the requests of the stream whose last byte is among the first n bytes
RECURSIVE Arrived(_, _)
Arrived(kinds, n) ==
    IF kinds = <<>> \/ Len(RequestBytes(Head(kinds))) > n THEN <<>>
    ELSE <<Head(kinds)>>
           \o Arrived(Tail(kinds), n - Len(RequestBytes(Head(kinds))))

\* C17: a read() that meets no error returns the requests whose last byte
\* arrived in this read, in the order of the stream and once each, and adds
\* their number to in_flight_response_count; the bytes after the last of
\* them stay with the connection, in the read buffer or, when they are a
\* complete head, as the head whose body is awaited; so k pipelined requests
\* and the beginning of another give k requests, and the other one is
\* returned by the read that brings its last byte.
C17_PipelinedRead ==
    [][(wire'.sent > wire.sent /\ wire'.result = "Ok")
       => LET before == Arrived(wire.kinds, wire.sent)
              after == Arrived(wire.kinds, wire'.sent)
              new == SubSeq(after, Len(before) + 1, Len(after))
              tail == SubSeq(StreamBytes(wire.kinds),
                             Len(StreamBytes(after)) + 1, wire'.sent)
              pending == connections'[1].connection.pending
          IN /\ wire'.last = [i \in 1..Len(new) |-> RequestOf(new[i])]
             /\ connections'[1].in_flight_response_count
                  = connections[1].in_flight_response_count + Len(new)
             /\ pending = "none" => wire'.buffer = tail
             /\ pending # "none"
                => /\ wire'.buffer = <<>>
                   /\ tail \o <<"b">> = RequestBytes(wire.kinds[Len(after) + 1])]_vars

\* one read has returned two requests and left the beginning of a third in
\* the read buffer
C17_Witness ==
    /\ pc = "parser"
    /\ Len(wire.last) = 2
    /\ wire.buffer # <<>>
    /\ wire.sent < Len(StreamBytes(wire.kinds))
    /\ connections[1].in_flight_response_count = 2


\* C18: for every Response r with body b, what Response::receive makes of the
\* bytes that send() wrote for r is a response with body b and Content-Length
\* len(b), however the stream splits the bytes into reads.
C18_RoundTrip ==
    (pc = "received" /\ wire.response.body.is_some)
    => /\ wire.received.ok
       /\ wire.received.response.body = wire.response.body
       /\ wire.received.response.headers.content_length
            = Len(wire.response.body.stream)


\* C19: Closed is absorbing: a connection whose state is Closed keeps that
\* state, whatever read event, write event or respond() comes, for as long as
\* it is in the map.
C19_ClosedIsAbsorbing ==
    [][\A fd \in DOMAIN connections :
         (connections[fd].state = "Closed" /\ fd \in DOMAIN connections')
         => connections'[fd].state = "Closed"]_vars


C21_WriteFailure ==
    [][pc = "dispatch" =>
         /\ \A e \in events \ events' :
              (/\ pc' = "dispatch"
               /\ e.fd # ListenerFd /\ e.event_set = "OUT"
               /\ faults' = faults + 1)
              => /\ connections'[e.fd] =
                      [connections[e.fd] EXCEPT !.state = "Closed"]
                 /\ result' = Running
         /\ \A fd \in DOMAIN connections :
              (/\ pc' = "idle" /\ result'.val # "Ok"
               /\ epoll[fd] = "OUT"
               /\ connections'[fd] # connections[fd])
              => /\ connections'[fd].state = "AwaitingIncoming"
                 /\ result' = Err("IOError", "epoll_ctl")
         /\ result'.val = "ConnectionError"
              => /\ \E e \in events :
                      /\ e.fd # ListenerFd /\ e.event_set = "OUT"
                      /\ ~HttpConnection_pending_write(connections[e.fd].connection)
                 /\ connections' = connections]_vars

\* a write has failed on a connection that owes one response: the
\* connection is Closed with its bytes still queued and requests() goes on
C21_Witness ==
    /\ pc = "dispatch" /\ result = Running /\ faults = 1
    /\ \E fd \in DOMAIN connections :
         /\ connections[fd].state = "Closed"
         /\ epoll[fd] = "OUT"
         /\ HttpConnection_pending_write(connections[fd].connection)
         /\ connections[fd].in_flight_response_count = 1


\* the bytes of a 100 Continue response
ContinueBlob == "HTTP/1.1 100\r\n\r\n"

\* the requests of a Vec<ServerRequest> that carry id and `Expect`
ExpectingOf(reqs, id) ==
    Cardinality({i \in 1..Len(reqs) : reqs[i].id = id /\ reqs[i].request.expect})

\* a step of requests() in which the read of connection fd ends with the
\* head of a request with `Expect: 100-continue` whose body has not arrived
ExpectHeadRead(fd) ==
    /\ pc = "dispatch" /\ fd \in DOMAIN connections'
    /\ Len(fifo'[fd]) > Len(fifo[fd])
    /\ fifo'[fd][Len(fifo'[fd])] = ContinueBlob
    /\ connections'[fd].connection.pending = "HEAD_EXPECT"

\* a step of requests() in which a read of connection fd brings the body
\* that a request with `Expect: 100-continue` was waiting for
ExpectBodyRead(fd) ==
    /\ pc = "dispatch" /\ fd \in DOMAIN connections'
    /\ connections[fd].connection.pending = "HEAD_EXPECT"
    /\ connections'[fd].in_flight_response_count
         # connections[fd].in_flight_response_count

\* what every read that ends with such a head does, and what every read
\* that brings the awaited body does, whatever the notifier does.  A read
\* may bring more than one head: every request with `Expect` it yields had
\* its head in this read, with a 100 Continue of its own, or was the one
\* awaited before; the waiting request is not among them and has exactly
\* one 100 Continue (credit).
ExpectHandshake(fd) ==
    LET c == connections[fd]
        d == connections'[fd]
        awaited == IF c.connection.pending = "HEAD_EXPECT" THEN 1 ELSE 0
        enqueued == Continues(d.connection.response_queue)
                      - Continues(c.connection.response_queue)
    IN /\ ExpectHeadRead(fd)
          => /\ d.connection.parsed_requests = <<>>
             /\ CountId(parsed_requests', fd) - CountId(parsed_requests, fd)
                  <= d.in_flight_response_count - c.in_flight_response_count
             /\ enqueued >= 1
             /\ ExpectingOf(parsed_requests', fd) - ExpectingOf(parsed_requests, fd)
                  <= awaited + enqueued - 1
             /\ credit'[fd] = 1
             /\ d.state = "AwaitingOutgoing"
       /\ ExpectBodyRead(fd)
          => /\ d.in_flight_response_count > c.in_flight_response_count
             /\ d.connection.parsed_requests = <<>>
             /\ pc' = "dispatch"
                  => /\ ExpectingOf(parsed_requests', fd)
                          >= ExpectingOf(parsed_requests, fd) + 1
                     /\ CountId(parsed_requests', fd) - CountId(parsed_requests, fd)
                          = d.in_flight_response_count - c.in_flight_response_count

C23_InterruptedWait ==
    [][/\ (result'.cause = "EINTR" /\ result.cause # "EINTR")
          => /\ pc = "idle" /\ pc' = "dispatch"
             /\ result'.val = "Running"
             /\ events' = {} /\ parsed_requests' = <<>>
             /\ connections' = connections /\ epoll' = epoll
       /\ result.cause = "EINTR"
          => /\ pc' = "idle" /\ result' = Ok
             /\ reaped' = Done(connections)
             /\ connections' = [fd \in DOMAIN connections \ Done(connections)
                                  |-> connections[fd]]
             /\ DOMAIN epoll' = DOMAIN epoll \ Done(connections)
             /\ owed' = [fd \in Fds |-> IF fd \in Done(connections)
                                        THEN 0 ELSE owed[fd]]
       /\ (result'.cause = "epoll_wait" /\ faults' = faults + 1)
          => /\ pc = "idle" /\ pc' = "idle"
             /\ result' = Err("IOError", "epoll_wait")
             /\ connections' = connections /\ epoll' = epoll
             /\ owed' = owed]_vars

\* the wait of this requests() call was interrupted while the map holds a
\* connection that is done, and one that is not
C23_Witness ==
    /\ result = Interrupted
    /\ Done(connections) # {}
    /\ Done(connections) # DOMAIN connections


\* the header lines that announce what the server does not support
Unsupported(line) ==
    \/ ToLower(LineName(line)) = "transfer-encoding"
    \/ ToLower(LineName(line)) = "expect" /\ LineValue(line) # "100-continue"

\* C24: a header block that holds a `Transfer-Encoding` line, or an
\* `Expect` line whose value is not `100-continue`, is rejected by the
\* header parser, and no request is made of the bytes that hold it.
C24_UnsupportedRejected ==
    (pc = "parsed" /\ \E i \in 1..Len(wire.lines) : Unsupported(wire.lines[i]))
    => ~wire.headers.ok /\ ~wire.request.ok


\* C25: a header block that is accepted holds no `Content-Length` line
\* whose value is anything but a decimal integer in 0 .. 2^31-1, so the
\* content_length that is stored is never negative.
C25_ContentLengthRange ==
    (pc = "parsed" /\ wire.headers.ok)
    => /\ wire.headers.headers.content_length >= 0
       /\ \A i \in 1..Len(wire.lines) :
            ToLower(LineName(wire.lines[i])) = "content-length"
            => /\ ParseI32(LineValue(wire.lines[i])).ok
               /\ ParseI32(LineValue(wire.lines[i])).value >= 0

\* a header line with its name in lower case
LowerName(line) ==
    ToLower(LineName(line)) \o SubSeq(line, Len(LineName(line)) + 1, Len(line))

\* C26: header names are compared without regard to case: a block parses
\* as the block with its names in lower case does, the headers that are
\* held have names that differ in more than case, a header that was
\* received is found under its name in any case, and the value held is
\* the value as it was received.
C26_NamesIgnoreCase ==
    (pc = "parsed" /\ wire.headers.ok)
    => LET h == wire.headers.headers
           lower == Headers_try_from(
                      JoinLines([i \in 1..Len(wire.lines) |-> LowerName(wire.lines[i])]))
       IN /\ lower.ok /\ lower.headers.content_length = h.content_length
          /\ \A k1, k2 \in DOMAIN h.map : ToLower(k1) = ToLower(k2) => k1 = k2
          /\ \A i \in 1..Len(wire.lines) :
               ToLower(LineName(wire.lines[i])) # "content-length"
               => /\ Headers_header_line(h, LineName(wire.lines[i])).is_some
                  /\ Headers_header_line(h, ToLower(LineName(wire.lines[i]))).is_some
          /\ \A k \in DOMAIN h.map :
               \E i \in 1..Len(wire.lines) : wire.lines[i] = k \o ": " \o h.map[k]


\* the lines of a text, without their CRLF
RECURSIVE SplitLines(_)
SplitLines(text) ==
    IF text = "" THEN <<>>
    ELSE LET e == Find(text, CR_LF)
         IN IF e < 0 THEN <<text>>
            ELSE <<SubSeq(text, 1, e)>> \o SplitLines(SubSeq(text, e + 3, Len(text)))

\* what send() has written: the head up to the empty line, and the bytes
\* after it
SentHead == SubSeq(Concat(wire.sent), 1, Find(Concat(wire.sent), CR_LF \o CR_LF))
SentBody ==
    SubSeq(Concat(wire.sent), Find(Concat(wire.sent), CR_LF \o CR_LF) + 5,
           Len(Concat(wire.sent)))

\* C27: whatever calls built the response, every Content-Length line that
\* send() writes carries the number of body bytes written after the empty
\* line, and none is written when no body byte follows.
C27_ContentLengthIsBodyLength ==
    pc = "sent"
    => \A i \in 2..Len(SplitLines(SentHead)) :
         ToLower(LineName(SplitLines(SentHead)[i])) = "content-length"
         => /\ SentBody # ""
            /\ LineValue(SplitLines(SentHead)[i]) = ToString(Len(SentBody))


\* the layout of what send() has written, the status line ending with
\* `status_end` after the status code: the status line; one line
\* `name: value` for every header of the map; a Content-Length line with
\* the length of the body when the body is not empty; an empty line; the
\* bytes of the body
Layout(status_end) ==
    LET lines == SplitLines(SentHead)
        r == wire.response
        body == IF r.body.is_some THEN r.body.stream ELSE ""
        code == StatusCode_raw(r.status_line.status_code)
        entries == Cardinality(DOMAIN r.headers.map)
    IN /\ Find(Concat(wire.sent), CR_LF \o CR_LF) >= 0
       /\ Len(code) = 3
       /\ \A i \in 1..3 : IndexIn("0123456789", CharAt(code, i)) > 0
       /\ lines[1] = Version_raw(r.status_line.http_version) \o SP \o code
                        \o status_end
       /\ Len(lines) = 1 + entries + (IF body # "" THEN 1 ELSE 0)
       /\ \A k \in DOMAIN r.headers.map :
            \E i \in 2..(1 + entries) : lines[i] = k \o ": " \o r.headers.map[k]
       /\ body # ""
            => lines[Len(lines)] = "Content-Length: " \o ToString(Len(body))
       /\ SentBody = body

\* C28 (as amended): the bytes of every response are the version, SP, the
\* three-digit status code and CRLF, with no space after the status code;
\* then the header lines, the Content-Length line last and only when the
\* body is not empty; then an empty line; then the body bytes.
C28_Layout == pc = "sent" => Layout("")

\* a response with a header and a body has been written
C28_Witness ==
    /\ pc = "sent"
    /\ wire.sent =
         <<"HTTP/1.1 200\r\nServer: Firecracker API\r\nContent-Length: 13\r\n\r\n",
           "response body">>

\* C28 (as stated): the same layout with SP between the status code and
\* the CRLF of the status line.
C28_LayoutTrailingSP == pc = "sent" => Layout(SP)


\* a step in which the application calls respond() with the id of
\* connection id, which is in the map
RespondStep(id) ==
    /\ pc = "idle" /\ id \in DOMAIN connections
    /\ owed'[id] = owed[id] - 1

\* what a respond() call does to the connection it addresses when the
\* connection is not Closed: the state and the interest are those of a
\* connection with bytes to write, the response is at the tail of the FIFO
\* and one response less is owed
Responded(id) ==
    LET c == connections[id]
        d == connections'[id]
    IN /\ c.state = "AwaitingIncoming"
          => d.state = "AwaitingOutgoing" /\ epoll'[id] = "OUT"
       /\ c.state = "AwaitingOutgoing"
          => d.state = "AwaitingOutgoing" /\ epoll'[id] = epoll[id]
       /\ c.state # "Closed"
          => /\ \E r \in AppResponses :
                  d.connection.response_queue
                    = Append(c.connection.response_queue, Response_send(r))
             /\ d.connection.cursor = c.connection.cursor
       /\ d.in_flight_response_count = c.in_flight_response_count - 1

Undelivered(fd) ==
    /\ fd \in DOMAIN connections
    /\ connections[fd].state # "Closed"
    /\ HttpConnection_pending_write(connections[fd].connection)

\* every byte enqueued on connection fd has been written to its stream, in
\* order, and the connection awaits requests with readable interest
Delivered(fd) ==
    /\ fd \in DOMAIN connections
    /\ ~HttpConnection_pending_write(connections[fd].connection)
    /\ fifo[fd] = <<>> /\ wire_ok
    /\ connections[fd].state = "AwaitingIncoming"
    /\ epoll[fd] = "IN"

\* C30: when no system call fails, requests() keeps being called and the
\* streams keep accepting bytes, a connection that is not Closed and has
\* responses enqueued reaches a state where all of them are written to its
\* stream, its state is AwaitingIncoming and its interest is readable.
C30_Delivery == \A fd \in Fds : Undelivered(fd) ~> Delivered(fd)

\* the 100 Continue enqueued on a connection has been written completely:
\* the connection awaits the body of the request with readable interest
C30_Witness ==
    \E fd \in DOMAIN connections :
      /\ Delivered(fd)
      /\ connections[fd].connection.pending = "HEAD_EXPECT"
      /\ credit[fd] = 1
      /\ faults = MaxFaults


\* C31: once the server is started the descriptors registered with epoll
\* are the listener and the keys of the connections map, in every state and
\* so whenever epoll.wait is called; every event of a batch that is not the
\* listener's carries the descriptor of a connection in the map, so the
\* lookup of server.rs:334 finds it.
C31_RegisteredIsListenerPlusMap ==
    /\ started => DOMAIN epoll = {ListenerFd} \cup DOMAIN connections
    /\ ~started => DOMAIN epoll = {} /\ DOMAIN connections = {}
    /\ \A e \in events : e.fd # ListenerFd => e.fd \in DOMAIN connections

\* a batch holds the event of a connection while, in the call before, the
\* sweep has removed another connection from the map and the interest list
C31_Witness ==
    /\ started /\ pc = "dispatch"
    /\ \E e \in events : e.fd # ListenerFd /\ e.fd \in DOMAIN connections
    /\ \E fd \in Fds : fd \notin DOMAIN connections /\ fd \notin DOMAIN epoll
                         /\ \E g \in DOMAIN connections : g > fd


\* the registered interest of connection fd is the one of its state
InterestMatches(fd) ==
    /\ connections[fd].state = "AwaitingIncoming" => epoll[fd] = "IN"
    /\ connections[fd].state = "AwaitingOutgoing" => epoll[fd] = "OUT"

\* C32: when no notifier operation fails, between public calls the
\* registered interest of every connection matches its state, readable for
\* AwaitingIncoming and writable for AwaitingOutgoing; a connection with
\* response bytes pending is registered for writable events only, and the
\* events of a batch carry the registered interest, so no readable event is
\* dispatched to it before the backlog is written.
C32_InterestMatchesState ==
    /\ pc = "idle" => \A fd \in DOMAIN connections : InterestMatches(fd)
    /\ \A fd \in DOMAIN connections :
         HttpConnection_pending_write(connections[fd].connection)
           => epoll[fd] = "OUT"
    /\ \A e \in events : e.event_set = epoll[e.fd]

\* between two calls, after a stream has failed: one connection has a
\* response to write and is registered for writable events, another awaits
\* requests and is registered for readable events
C32_Witness ==
    /\ pc = "idle" /\ faults > 0
    /\ \E fd \in DOMAIN connections :
         /\ connections[fd].state = "AwaitingOutgoing"
         /\ HttpConnection_pending_write(connections[fd].connection)
         /\ epoll[fd] = "OUT"
    /\ \E fd \in DOMAIN connections :
         /\ connections[fd].state = "AwaitingIncoming"
         /\ epoll[fd] = "IN"


\* C33: when no notifier operation fails, every connection registered for
\* writable events has response bytes pending, a writable event of a batch
\* is that of such a connection, and no call has returned
\* ConnectionError(InvalidWrite), whatever the streams did (failed writes
\* and failed reads included).
C33_NoInvalidWrite ==
    /\ \A fd \in DOMAIN connections :
         epoll[fd] = "OUT"
           => HttpConnection_pending_write(connections[fd].connection)
    /\ \A e \in events :
         (e.fd # ListenerFd /\ e.event_set = "OUT")
           => HttpConnection_pending_write(connections[e.fd].connection)
    /\ result.val # "ConnectionError"

\* a writable event is about to be dispatched to a connection that a
\* failed write has closed: its response bytes are still pending
C33_Witness ==
    /\ pc = "dispatch"
    /\ \E e \in events :
         /\ e.fd # ListenerFd /\ e.event_set = "OUT"
         /\ connections[e.fd].state = "Closed"
         /\ HttpConnection_pending_write(connections[e.fd].connection)


\* C34: with an application that responds at most once to each request it
\* was given, in_flight_response_count of a connection is at least the
\* number of responses the application may still send to it, so the
\* subtraction of enqueue_response() never goes below 0: it neither panics
\* nor wraps, also on a Closed connection and after a parse error.
C34_NoUnderflow ==
    /\ \A fd \in DOMAIN connections :
         /\ owed[fd] <= connections[fd].in_flight_response_count
         /\ connections[fd].in_flight_response_count <= MaxInFlight
    /\ \A fd \in Fds \ DOMAIN connections : owed[fd] = 0
    /\ pc # "panicked"

\* the application has answered the request of a connection that was
\* Closed meanwhile, and the request of a connection that had a parse
\* error meanwhile: the count is 0, not below
C34_Witness ==
    /\ pc = "idle" /\ result = Ok
    /\ \E fd \in DOMAIN connections :
         /\ connections[fd].state = "Closed"
         /\ connections[fd].in_flight_response_count = 0
         /\ owed[fd] = 0 /\ hup[fd]
         /\ connections[fd].connection.response_queue = <<>>
    /\ \E fd \in DOMAIN connections :
         /\ connections[fd].in_flight_response_count = 0
         /\ owed[fd] = 0
         /\ BadRequests(connections[fd].connection.response_queue) = 1
         /\ Len(connections[fd].connection.response_queue) = 2


\* a step in which requests() returns Err from inside its loop
RequestsFails ==
    /\ pc = "dispatch" /\ pc' = "idle"
    /\ result'.val \notin {"Ok", "Running"}

\* C35: when requests() returns Err from inside its loop, it holds no
\* request collected from an earlier event of the batch, and the event
\* that fails has counted no request into in_flight_response_count: no
\* request is counted without being handed to the application.
C35_NoRequestLostOnErr ==
    [][RequestsFails
       => /\ parsed_requests = <<>>
          /\ \A fd \in DOMAIN connections :
               connections'[fd].in_flight_response_count
                 = connections[fd].in_flight_response_count]_vars


\* a step of requests() in which a new stream is answered with the 503
\* message and dropped
Refuses == pc = "dispatch" /\ rejected = <<>> /\ rejected' # <<>>

\* C36: a new stream is answered with the 503 message only when the map
\* holds MAX_CONNECTIONS connections and none of them is done (Closed,
\* nothing to write, nothing in flight).
C36_RefusedOnlyWhenNoneDone ==
    [][Refuses
       => /\ Cardinality(DOMAIN connections) = MAX_CONNECTIONS
          /\ Done(connections) = {}]_vars


\* C37: when requests() keeps being called and the notifier does not fail,
\* a connection in the map that is Closed (its peer has disconnected: a
\* read met end of file or a write failed) and has
\* in_flight_response_count 0 is eventually removed from the map, also when
\* response bytes were pending at the failed write.
C37_DisconnectedRemoved ==
    \A fd \in Fds :
      (/\ fd \in DOMAIN connections
       /\ connections[fd].state = "Closed"
       /\ connections[fd].in_flight_response_count = 0)
      ~> (fd \notin DOMAIN connections)


\* connection fd is in the map before and after the step, with the same
\* state, parsed requests, pending-write FIFO and count, and the same
\* registered interest
Untouched(fd) ==
    /\ fd \in DOMAIN connections'
    /\ connections'[fd] = connections[fd]
    /\ epoll'[fd] = epoll[fd]
    /\ fifo'[fd] = fifo[fd]

\* C38: a step of requests() that handles an event (a read, with or
\* without a parse error or an IO error, a write, an accept) leaves every
\* connection other than the event's untouched, whether requests() goes on
\* or returns Err; a respond() call leaves every connection other than the
\* one it addresses untouched.
C38_Isolation ==
    [][/\ (pc = "dispatch" /\ events # {})
          => \E e \in events \ events' :
               \A fd \in DOMAIN connections \ {e.fd} : Untouched(fd)
       /\ \A id \in Fds :
            (pc = "idle" /\ owed'[id] # owed[id])
            => \A fd \in DOMAIN connections \ {id} : Untouched(fd)]_vars

\* inside requests(), after a parse error on one connection was handled:
\* its 400 response is pending while another connection still has its
\* request counted and awaits the application's response
C38_Witness ==
    /\ pc = "dispatch"
    /\ \E fd \in DOMAIN connections, other \in DOMAIN connections :
         /\ fd # other
         /\ connections[fd].connection.response_queue = <<BadRequestBlob>>
         /\ connections[fd].state = "AwaitingOutgoing" /\ epoll[fd] = "OUT"
         /\ CountId(parsed_requests, fd) = 0
         /\ connections[other].state = "AwaitingIncoming" /\ epoll[other] = "IN"
         /\ connections[other].in_flight_response_count = 1
         /\ owed[other] = 1

----------------------------------------------------------------------------
\* respond() has returned the failure of its epoll_ctl
RespondFails(id) ==
    /\ RespondStep(id)
    /\ result' = Err("IOError", "epoll_ctl")

\* C39: a respond() call that returns Err leaves the connection it
\* addresses exactly as it was before the call: the state, the FIFO of
\* pending writes with its cursor and in_flight_response_count are those
\* of before the call.
C39_ErrLeavesConnection ==
    [][\A id \in DOMAIN connections :
         RespondFails(id)
         => LET c == connections[id]
                d == connections'[id]
            IN /\ d.state = c.state
               /\ d.connection.response_queue = c.connection.response_queue
               /\ d.connection.cursor = c.connection.cursor
               /\ d.in_flight_response_count = c.in_flight_response_count]_vars

============================================================================
